---- MODULE Spec2Model ----
(***************************************************************************)
(* Ingest sessions, watchdog and fan-out of testrift_server/websocket.py.  *)
(*                                                                         *)
(* Every coroutine is cut at its awaits: a task's pc names the await it is *)
(* suspended in, and one step applies the effect of that awaited call and  *)
(* runs the code that follows up to the next await.  Tasks of one event    *)
(* loop interleave only at these points.                                   *)
(***************************************************************************)
EXTENDS Integers, Sequences, FiniteSets, TLC

\* ---------------------------------------------------------------- bounds
MaxMsgs == 3          \* inbound frames of a runner connection on its own
MaxMsgsTwo == 2       \* inbound frames of each of two concurrent connections
MaxRuns == 2          \* TestRunData objects ever constructed
MaxCaseObjs == 2      \* TestCaseData objects ever constructed per run
MaxEntries == 2       \* log entries and exceptions ever sent by runners
MaxBatch == 2         \* entries of one log_batch frame
MaxHistory == 9       \* entries of a history of passed and failed only
MaxMixed == 6         \* entries of a history of any status
MaxAgeDays == 2       \* whole days between a run's start_time and the sweep
MaxRetention == 1     \* retention_days of a run (0: not set)
MaxMeta == 2          \* metadata keys of a group payload
MaxStrings == 4       \* component/channel strings one connection encodes
MaxScript == 3        \* events of one batch frame

\* ------------------------------------------------------ program constants
TickSeconds == 5      \* monitor_connection: asyncio.sleep(5)
GROUP_HASH_LENGTH == 16
TimeoutSeconds == 30  \* monitor_connection: time_since_activity > 30

\* ------------------------------------------------------------ input sets
Sessions == {1, 2}
RunIds == {"r1", "r2"}
TcNames == {"t1", "t2"}
TcIds == {"a", "b"}
UIClients == {"u1"}
Viewers == {"v1"}
TaskKinds == {"main", "mon"}
IdleCap == TimeoutSeconds + TickSeconds

\* a check of the status that lets every status through
ValidCaseStatuses_any ==
  {"passed", "failed", "skipped", "aborted", "error", "unknown_9"}

\* `if status in ['passed', 'failed', 'skipped', 'aborted', 'error']`
ValidCaseStatuses == {"passed", "failed", "skipped", "aborted", "error"}
CaseStartInputs == {"-", "passed"}
CaseFinishInputs == {"passed", "PASSED", "unknown_9"}

\* str.lower() on the statuses a message carries and on the metadata keys of
\* a group
lower(status) ==
  IF status = "PASSED" THEN "passed" ELSE IF status = "OS" THEN "os" ELSE status
RunFinishInputs == {"finished"}

NoRun == 0
NoMsg == [type |-> "-", rid |-> "-", name |-> "-", tcid |-> "-", status |-> "-"]
NoLoc == [m |-> NoMsg, o |-> NoRun, bo |-> NoRun, it |-> <<>>, todo |-> <<>>,
          cur |-> "-", st |-> "-", rid |-> "-", sz |-> 0, ret |-> "-",
          names |-> {},
          counts |-> [passed |-> 0, failed |-> 0, skipped |-> 0, aborted |-> 0]]
NoMeta == [exists |-> FALSE, status |-> "-", reason |-> "-",
           order |-> <<>>,
           cases |-> [n \in TcNames |-> "absent"],
           tc_id |-> [n \in TcNames |-> "-"],
           slices |-> [n \in TcNames |-> <<>>]]
NoRow == [exists |-> FALSE, status |-> "-", gen |-> NoRun, name |-> 0]
NoArchive == [written |-> FALSE, data |-> <<>>]
NoBoot == [pc |-> "serving",
           age |-> [id \in RunIds |-> [days |-> 0, more |-> FALSE]],
           retention_days |-> [id \in RunIds |-> 0]]
NoCls == [current |-> "-", history |-> <<>>, label |-> "-"]
NoBatch == [events |-> [s \in Sessions |-> <<>>], script |-> <<>>, sent |-> 0,
            bc |-> [o \in 1..MaxRuns |-> <<>>]]
NoViewer == [pc |-> "idle", o |-> NoRun, i |-> 0, live |-> FALSE, items |-> <<>>,
             got |-> <<>>, q |-> <<>>, nrep |-> 0, sub |-> 0, ws |-> "open"]

Min(a, b) == IF a < b THEN a ELSE b

\* a frame, or an event nested in a batch frame, as the handlers read it;
\* `maps` tells whether every element of its entries array is a map, `comp`
\* what its entries give as component: nothing, or an integer id that no
\* [id, string] pair of the session has defined
Event(type, rid, name, tcid, status, has_ts) ==
  [type |-> type, rid |-> rid, name |-> name, tcid |-> tcid, status |-> status,
   has_ts |-> has_ts, maps |-> TRUE, comp |-> "-"]

\* a log_batch whose entries refer to an interned component never defined
UndefinedRef(ev) == [ev EXCEPT !.comp = "undefined"]

\* a log_batch with an entry that is not a map
NotAMap(ev) == [ev EXCEPT !.maps = FALSE]

\* normalize_message and normalize_event hand every element of `entries` to
\* normalize_log_entry, whose `entry.get` raises on an element that is not a
\* map. decode_interned_string raises on no value: for an integer id it
\* returns `string_table.get(value, f"<unknown:{value}>")`
normalize_log_entry_raises(ev) == ~ev.maps

\* normalize_message normalises the events of a batch frame one by one, and
\* an exception of one of them is the frame's
normalize_message_raises(events) ==
  \E k \in 1..Len(events) : normalize_log_entry_raises(events[k])

VARIABLES
  heap,       \* TestRunData objects, by handle 1..Len(heap)
  test_runs,  \* WebSocketServer.test_runs: run_id -> handle (0: absent)
  sidecar,    \* meta file of each run directory
  dbRun,      \* test_runs table of the index
  dbCase,     \* test_cases table of the index: run_id -> tc_full_name -> status
  run,        \* handle_nunit_ws: the session's `run` variable
  tpc,        \* <<session, task>> -> the await the task is suspended in
  loc,        \* <<session, task>> -> locals of the coroutine in flight
  closed,     \* ws.closed of the runner connection
  idle,       \* seconds between last_activity and now
  gap,        \* seconds since the last inbound frame was received (history)
  msgsLeft,   \* frames the runner may still send
  ui,         \* WebSocketServer.ui_clients
  uiMode,     \* how each UI client's socket answers a send: ok, fail, stall
  bcFin,      \* per run object: run_finished broadcasts emitted (history)
  bcLate,     \* per run object: a broadcast was emitted after run_finished
  touched,    \* per run object: sessions whose handlers changed the run
  lastRecv,   \* whether the session's last frame was a heartbeat (history)
  caseLog,    \* per-case log files: run_id -> tc_id -> entries
  merged,     \* merged archive of each run: the slice of every test case
  nextEntry,  \* the next log entry a runner sends
  viewer,     \* handle_log_stream coroutines and their clients
  uiErr,      \* UI clients whose handle_ui_ws ended with a KeyError (history)
  errs,       \* per session: run_started_response frames carrying err sent (history)
  caseStack,  \* per-case stack files: run_id -> tc_id -> exception records
  rxLog,      \* records received for run_id and tc_id, as sent, each with
              \* the TestCaseData object it was looked up for (history)
  batch,      \* batch frames: per session the events still to dispatch; the script of the batch comparison and its broadcasts (history)
  boot,       \* on_startup: where it is, and per run the age and retention_days of its index row
  cls,        \* a call of _calculate_classification: current status, history, and the label returned
  grp,        \* calls of compute_group_hash: the payloads and the hashes returned
  wire        \* one connection's interned strings: encoder table, frames sent, decoder table, strings decoded

vars == <<heap, test_runs, sidecar, dbRun, dbCase, run, tpc, loc, closed,
          idle, gap, msgsLeft, ui, uiMode, bcFin, bcLate, touched, lastRecv,
          caseLog, merged, nextEntry, viewer,
          uiErr,
          errs,
          caseStack,
          rxLog,
          batch,
          boot,
          cls,
          grp,
          wire>>

Tasks == Sessions \X TaskKinds
Handles == 1..MaxRuns

\* ------------------------------------------------------------ TestRunData
\* TestRunData.__init__
\* run_name is the number appended to the base name (0: the base name itself);
\* every run_started of the model carries the same run_name and group
TestRunData(id, owner, name) ==
  [id |-> id, owner |-> owner, name |-> name, status |-> "running", reason |-> "-",
   order |-> <<>>,
   tcs |-> [n \in TcNames |-> 0],
   byId |-> [t \in TcIds |-> 0],
   objs |-> <<>>,
   string_table |-> {}]

NoOffset == -1

\* TestCaseData.__init__ : status comes from tc_meta, default running; logs
\* start empty, stack_traces are read from the stack file of tc_id if there
\* is one (traces: its content), log_offset is None
TestCaseData(name, tcid, status, traces) ==
  [name |-> name, tcid |-> tcid,
   status |-> IF status = "-" THEN "running" ELSE status, logs |-> <<>>,
   stack_traces |-> traces, subscribers |-> <<>>,
   log_offset |-> NoOffset, log_count |-> 0, stack_count |-> 0]

\* TestRunData.to_dict / TestCaseData.to_dict
to_dict(r) ==
  [exists |-> TRUE, status |-> r.status, reason |-> r.reason,
   order |-> r.order,
   cases |-> [n \in TcNames |->
                IF r.tcs[n] = 0 THEN "absent" ELSE r.objs[r.tcs[n]].status],
   tc_id |-> [n \in TcNames |->
                IF r.tcs[n] = 0 THEN "-" ELSE r.objs[r.tcs[n]].tcid],
   slices |-> [n \in TcNames |->
                IF r.tcs[n] = 0 \/ r.objs[r.tcs[n]].log_offset = NoOffset
                THEN <<>>
                ELSE LET c == r.objs[r.tcs[n]]
                     IN <<c.log_offset, c.log_count, c.stack_count>>]]

\* names of test_cases (dict order) whose case is running
RECURSIVE RunningIn(_, _)
RunningIn(r, names) ==
  IF names = <<>> THEN <<>>
  ELSE LET n == Head(names) IN
       IF r.objs[r.tcs[n]].status = "running"
       THEN <<n>> \o RunningIn(r, Tail(names))
       ELSE RunningIn(r, Tail(names))

\* every running case of test_cases becomes aborted
AbortCases(r) ==
  [r EXCEPT !.objs = [i \in 1..Len(r.objs) |->
     IF r.tcs[r.objs[i].name] = i /\ r.objs[i].status = "running"
     THEN [r.objs[i] EXCEPT !.status = "aborted"] ELSE r.objs[i]]]

\* _count_test_statuses(run), and the same loop inside mark_run_aborted: over
\* run.test_cases.values(), by tc.status.lower()
_count_test_statuses(r) ==
  LET count(status) ==
        Cardinality({n \in TcNames : /\ r.tcs[n] # 0
                                      /\ lower(r.objs[r.tcs[n]].status) = status})
  IN [passed |-> count("passed"), failed |-> count("failed"),
      skipped |-> count("skipped"), aborted |-> count("aborted")]

\* write_meta_msgpack(run_id, meta): the run's sidecar is replaced
write_meta_msgpack(id, meta) == sidecar' = [sidecar EXCEPT ![id] = meta]

\* ------------------------------------------------------------ the index
\* a lookup that never finds a row
get_test_run_by_id_none(id) == FALSE

\* TestResultsDatabase.get_test_run_by_id
get_test_run_by_id(id) == dbRun[id].exists

\* TestResultsDatabase.get_run_names_starting_with: the names of the group's rows
get_run_names_starting_with == {dbRun[id].name : id \in {i \in RunIds : dbRun[i].exists}}

\* ------------------------------------------------------------ broadcasts
SendBlocked == \E c \in ui : uiMode[c] = "stall"

\* WebSocketServer.broadcast_ui, seen from its completion: clients whose send
\* raised are removed; o is the run the message is about (0: none)
broadcast_ui(type, o) ==
  /\ ~SendBlocked
  /\ ui' = {c \in ui : uiMode[c] # "fail"}
  /\ IF o = NoRun
     THEN UNCHANGED <<bcFin, bcLate>>
     ELSE /\ bcLate' = [bcLate EXCEPT ![o] = @ \/ bcFin[o] > 0]
          /\ bcFin' = IF type = "run_finished"
                      THEN [bcFin EXCEPT ![o] = Min(@ + 1, 2)]
                      ELSE bcFin

\* ------------------------------------------------------------------ Init
\* the process when it begins to serve: no run object, no connection handled
Fresh(budget) ==
  /\ heap = <<>>
  /\ test_runs = [id \in RunIds |-> NoRun]
  /\ run = [s \in Sessions |-> NoRun]
  /\ tpc = [t \in Tasks |-> IF t[2] = "main" THEN "recv" ELSE "sleep"]
  /\ loc = [t \in Tasks |-> NoLoc]
  /\ closed = [s \in Sessions |-> FALSE]
  /\ idle = [s \in Sessions |-> 0]
  /\ gap = [s \in Sessions |-> 0]
  /\ msgsLeft = [s \in Sessions |-> budget]
  /\ ui = UIClients
  /\ uiMode = [c \in UIClients |-> "ok"]
  /\ bcFin = [o \in Handles |-> 0]
  /\ bcLate = [o \in Handles |-> FALSE]
  /\ touched = [o \in Handles |-> {}]
  /\ lastRecv = [s \in Sessions |-> "-"]
  /\ caseLog = [id \in RunIds |-> [t \in TcIds |-> <<>>]]
  /\ merged = [id \in RunIds |-> NoArchive]
  /\ nextEntry = 1
  /\ viewer = [v \in Viewers |-> NoViewer]
  /\ batch = NoBatch
  /\ rxLog = [id \in RunIds |-> [t \in TcIds |-> <<>>]]
  /\ caseStack = [id \in RunIds |-> [t \in TcIds |-> <<>>]]
  /\ errs = [s \in Sessions |-> 0]
  /\ uiErr = {}

\* a data directory and an index without runs
Start(budget) ==
  /\ Fresh(budget)
  /\ sidecar = [id \in RunIds |-> NoMeta]
  /\ dbRun = [id \in RunIds |-> NoRow]
  /\ dbCase = [id \in RunIds |-> [n \in TcNames |-> "absent"]]
  /\ cls = NoCls
  /\ boot = NoBoot
  /\ grp = <<>>
  /\ wire = <<>>

Init == Start(MaxMsgs)

InitTwo == Start(MaxMsgsTwo)

\* --------------------------------------------- _calculate_classification
\* `sum(1 for i in range(len(statuses) - 1) if statuses[i] != statuses[i + 1])`
\* reporting no transition at all
transitions_none(statuses) == 0

\* `sum(1 for i in range(len(statuses) - 1) if statuses[i] != statuses[i + 1])`
transitions(statuses) ==
  Cardinality({i \in 1..(Len(statuses) - 1) : statuses[i] # statuses[i + 1]})

\* the label: "none" stands for None
_calculate_classification(current_status, history) ==
  IF history = <<>> THEN "none"
  ELSE
    LET current_is_pass == lower(current_status) = "passed"
        current_is_fail == lower(current_status) \in {"failed", "error"}
        relevant_history ==
          SelectSeq(history,
                    LAMBDA h : lower(h) \notin {"skipped", "running", "aborted"})
        lowered == <<lower(current_status)>>
                     \o [k \in 1..Len(relevant_history) |-> lower(relevant_history[k])]
        kept == SelectSeq(lowered, LAMBDA s : s \in {"passed", "failed", "error"})
        statuses == [k \in 1..Len(kept) |-> IF kept[k] = "passed" THEN "pass" ELSE "fail"]
        last_5 == [k \in 1..5 |-> lower(relevant_history[k])]
    IN IF relevant_history = <<>> THEN "none"
       ELSE IF Len(statuses) >= 2 /\ transitions(statuses) > 4 THEN "flaky"
       ELSE IF /\ current_is_pass /\ Len(relevant_history) >= 5
               /\ \A k \in 1..5 : last_5[k] \in {"failed", "error"}
            THEN "fixed"
       ELSE IF /\ current_is_fail /\ Len(relevant_history) >= 5
               /\ \A k \in 1..5 : last_5[k] = "passed"
            THEN "regression"
       ELSE "none"

\* get_classifications_for_run: the label of one test case is computed
\* from its current status and its history, newest first
get_classifications_for_run ==
  /\ cls.current # "-"
  /\ cls.label = "-"
  /\ cls' = [cls EXCEPT !.label = _calculate_classification(cls.current, cls.history)]
  /\ UNCHANGED <<heap, test_runs, sidecar, dbRun, dbCase, run, tpc, loc, closed,
                 idle, gap, msgsLeft, ui, uiMode, bcFin, bcLate, touched,
                 lastRecv, caseLog, merged, nextEntry, viewer, uiErr, errs,
                 caseStack, rxLog, batch, boot,
                 grp,
                 wire>>

\* a current status and a history as the index can hold them: any statuses
\* up to MaxMixed entries, passed and failed up to MaxHistory entries
InitClassify ==
  /\ Fresh(0)
  /\ sidecar = [id \in RunIds |-> NoMeta]
  /\ dbRun = [id \in RunIds |-> NoRow]
  /\ dbCase = [id \in RunIds |-> [n \in TcNames |-> "absent"]]
  /\ boot = NoBoot
  /\ grp = <<>>
  /\ wire = <<>>
  /\ \E current \in {"passed", "failed", "error", "skipped"},
        history \in UNION {[1..k -> {"passed", "failed", "error", "skipped"}] :
                             k \in 0..MaxMixed}
                    \cup UNION {[1..k -> {"passed", "failed"}] : k \in 0..MaxHistory} :
       cls = [current |-> current, history |-> history, label |-> "-"]

SpecClassify == InitClassify /\ [][get_classifications_for_run]_vars

\* ------------------------------------------------------------- on_startup
\* cleanup_runs_sweep's test of one run, deleting every run
should_delete_always(age, retention_days) == TRUE

\* cleanup_runs_sweep's test of one run: `if retention_days and
\* start_time_str`, then `age_days = (now - start_time).days` and
\* `age_days > int(retention_days)`. timedelta.days is the number of whole
\* days; age.more tells whether now - start_time exceeds them
should_delete(age, retention_days) ==
  retention_days # 0 /\ age.days > retention_days

\* cleanup_runs_sweep: for every row of the index that passes the test,
\* shutil.rmtree of the run's directory if it exists: sidecar, case files and
\* archive go; the index is left alone
cleanup_runs_sweep ==
  /\ boot.pc = "sweep"
  /\ LET gone == {id \in RunIds : /\ dbRun[id].exists
                                   /\ should_delete(boot.age[id], boot.retention_days[id])}
     IN /\ sidecar' = [id \in RunIds |-> IF id \in gone THEN NoMeta ELSE sidecar[id]]
        /\ caseLog' = [id \in RunIds |->
                        IF id \in gone THEN [t \in TcIds |-> <<>>] ELSE caseLog[id]]
        /\ caseStack' = [id \in RunIds |->
                          IF id \in gone THEN [t \in TcIds |-> <<>>] ELSE caseStack[id]]
        /\ merged' = [id \in RunIds |-> IF id \in gone THEN NoArchive ELSE merged[id]]
  /\ boot' = [boot EXCEPT !.pc = "abandoned"]
  /\ UNCHANGED <<heap, test_runs, dbRun, dbCase, run, tpc, loc, closed,
                 idle, gap, msgsLeft, ui, uiMode, bcFin, bcLate, touched,
                 lastRecv, nextEntry, viewer, uiErr, errs, rxLog, batch, cls,
                 grp,
                 wire>>

\* cleanup_abandoned_running_runs: for every row with status running or
\* aborted, log_test_case_finished(run_id, name, 'aborted') for each of its
\* running test cases. For a running run with such a case the call
\* `database.log_test_run_finished(run_id, run_end_time, 'aborted')` follows:
\* log_test_run_finished(run_id, status) takes two arguments, the call raises
\* TypeError, `except Exception` logs it and the row stays as it is
cleanup_abandoned_running_runs ==
  /\ boot.pc = "abandoned"
  /\ dbCase' = [id \in RunIds |-> [n \in TcNames |->
                  IF /\ dbRun[id].exists
                     /\ dbRun[id].status \in {"running", "aborted"}
                     /\ dbCase[id][n] = "running"
                  THEN "aborted" ELSE dbCase[id][n]]]
  /\ boot' = [boot EXCEPT !.pc = "serving"]
  /\ UNCHANGED <<heap, test_runs, sidecar, dbRun, run, tpc, loc, closed,
                 idle, gap, msgsLeft, ui, uiMode, bcFin, bcLate, touched,
                 lastRecv, caseLog, merged, nextEntry, viewer, uiErr, errs,
                 caseStack, rxLog, batch, cls,
                 grp,
                 wire>>

\* the server is started on the data directory and index an earlier process
\* left: rows of runs in any status with test cases in any status, each run
\* with its directory, its retention_days and its age at the time of the sweep
InitBoot ==
  /\ Fresh(0)
  /\ cls = NoCls
  /\ grp = <<>>
  /\ wire = <<>>
  /\ \E here \in SUBSET RunIds,
        status \in [RunIds -> {"running", "aborted", "finished"}],
        cases \in [RunIds -> [TcNames -> {"absent", "running", "passed"}]],
        days \in [RunIds -> 0..MaxAgeDays],
        more \in [RunIds -> BOOLEAN],
        retention_days \in [RunIds -> 0..MaxRetention] :
       /\ \A id \in RunIds \ here :
            /\ status[id] = "finished" /\ days[id] = 0 /\ ~more[id]
            /\ retention_days[id] = 0
            /\ \A n \in TcNames : cases[id][n] = "absent"
       /\ dbRun = [id \in RunIds |->
                     IF id \in here
                     THEN [exists |-> TRUE, status |-> status[id], gen |-> NoRun,
                           name |-> 0]
                     ELSE NoRow]
       /\ dbCase = cases
       /\ sidecar = [id \in RunIds |->
                       IF id \in here
                       THEN [to_dict(TestRunData(id, 0, 0)) EXCEPT !.status = status[id]]
                       ELSE NoMeta]
       /\ boot = [pc |-> "sweep",
                  age |-> [id \in RunIds |-> [days |-> days[id], more |-> more[id]]],
                  retention_days |-> retention_days]

SpecBoot == InitBoot /\ [][cleanup_runs_sweep \/ cleanup_abandoned_running_runs]_vars

\* ------------------------------------------------------- cleanup_old_runs
\* `while True: await cleanup_runs_sweep(); await asyncio.sleep(3600)`, the
\* task on_startup creates: a sweep while connections are served. The rows
\* come from the index; a run's age is now minus the start_time that
\* log_test_run_started gave its row, any number of days for a sweep that
\* comes late enough; the sweeps of one behaviour are capped at one
cleanup_old_runs ==
  /\ boot.pc = "serving"
  /\ \E days \in [RunIds -> 0..MaxAgeDays] :
       LET age == [id \in RunIds |-> [days |-> days[id], more |-> FALSE]]
           gone == {id \in RunIds : /\ dbRun[id].exists
                                    /\ should_delete(age[id], boot.retention_days[id])}
       IN /\ sidecar' = [id \in RunIds |-> IF id \in gone THEN NoMeta ELSE sidecar[id]]
          /\ caseLog' = [id \in RunIds |->
                          IF id \in gone THEN [t \in TcIds |-> <<>>] ELSE caseLog[id]]
          /\ caseStack' = [id \in RunIds |->
                            IF id \in gone THEN [t \in TcIds |-> <<>>] ELSE caseStack[id]]
          /\ merged' = [id \in RunIds |-> IF id \in gone THEN NoArchive ELSE merged[id]]
          /\ boot' = [boot EXCEPT !.pc = "sleep", !.age = age]
  /\ UNCHANGED <<heap, test_runs, dbRun, dbCase, run, tpc, loc, closed,
                 idle, gap, msgsLeft, ui, uiMode, bcFin, bcLate, touched,
                 lastRecv, nextEntry, viewer, uiErr, errs, rxLog, batch, cls,
                 grp,
                 wire>>

\* the process when it begins to serve, with the retention_days the
\* run_started message of each run id is going to carry
InitSweep ==
  /\ Fresh(MaxMsgs)
  /\ sidecar = [id \in RunIds |-> NoMeta]
  /\ dbRun = [id \in RunIds |-> NoRow]
  /\ dbCase = [id \in RunIds |-> [n \in TcNames |-> "absent"]]
  /\ cls = NoCls
  /\ grp = <<>>
  /\ wire = <<>>
  /\ \E retention_days \in [RunIds -> 0..MaxRetention] :
       boot = [NoBoot EXCEPT !.retention_days = retention_days]

\* ------------------------------------------------------------ group hash
\* normalize_group_payload on a payload whose metadata is a dict, given as
\* its items in insertion order, of dicts with value and url: the name
\* stripped (None, here the group without a name, if it is empty); each key
\* stripped, empty keys skipped, and normalized_metadata[key_str] assigned in
\* turn: a key that is already there keeps its place and takes the new value
normalize_group_payload(group_data) ==
  LET strip(s) == IF s = " os" THEN "os" ELSE IF s = " ci" THEN "ci" ELSE s
      name == strip(group_data.name)
      RECURSIVE normalized_metadata(_)
      normalized_metadata(k) ==
        IF k = 0 THEN <<>>
        ELSE LET sofar == normalized_metadata(k - 1)
                 key_str == strip(group_data.metadata[k].key)
                 entry == [key |-> key_str,
                           value |-> group_data.metadata[k].value,
                           url |-> group_data.metadata[k].url]
             IN IF key_str = "" THEN sofar
                ELSE IF \E j \in 1..Len(sofar) : sofar[j].key = key_str
                THEN [j \in 1..Len(sofar) |->
                        IF sofar[j].key = key_str THEN entry ELSE sofar[j]]
                ELSE Append(sofar, entry)
  IN IF name = "" THEN [name |-> "", metadata |-> <<>>]
     ELSE [name |-> name, metadata |-> normalized_metadata(Len(group_data.metadata))]

\* compute_group_hash: the (key, value) items of the normalized metadata in
\* dict order, sorted by list.sort (stable) with key (key.lower(), value),
\* and the first GROUP_HASH_LENGTH hex characters of the SHA-256 digest of the
\* JSON text of name and sorted items. The digest is modelled by the text it
\* is taken of: equal texts give equal digests, different texts different ones
compute_group_hash(group_data) ==
  LET normalized == normalize_group_payload(group_data)
      metadata_items == [k \in 1..Len(normalized.metadata) |->
                           <<normalized.metadata[k].key, normalized.metadata[k].value>>]
      \* the order of Python's str comparison on the keys and values used
      ord(s) == CASE s = "arch" -> 1 [] s = "os" -> 2 [] s = "x" -> 3 [] s = "y" -> 4
      less(a, b) == \/ ord(lower(a[1])) < ord(lower(b[1]))
                    \/ lower(a[1]) = lower(b[1]) /\ ord(a[2]) < ord(b[2])
      RECURSIVE sort(_)
      sort(k) ==
        IF k = 0 THEN <<>>
        ELSE LET sofar == sort(k - 1)
                 item == metadata_items[k]
                 p == Cardinality({j \in 1..Len(sofar) : ~less(item, sofar[j])})
             IN SubSeq(sofar, 1, p) \o <<item>> \o SubSeq(sofar, p + 1, Len(sofar))
  IN [digest |-> [name |-> normalized.name, metadata |-> sort(Len(metadata_items))],
      chars |-> GROUP_HASH_LENGTH]

\* _handle_run_started, the group of the message: group_payload =
\* normalize_group_payload(raw_group), group_hash = compute_group_hash(
\* group_payload), both kept in the TestRunData and written to the sidecar
_handle_run_started_group(p) ==
  /\ grp.pc[p] = "sent"
  /\ LET group_payload == normalize_group_payload(grp.raw[p])
     IN grp' = [grp EXCEPT !.group[p] = group_payload,
                           !.group_hash[p] = compute_group_hash(group_payload),
                           !.pc[p] = "stored"]
  /\ UNCHANGED <<heap, test_runs, sidecar, dbRun, dbCase, run, tpc, loc, closed,
                 idle, gap, msgsLeft, ui, uiMode, bcFin, bcLate, touched,
                 lastRecv, caseLog, merged, nextEntry, viewer, uiErr, errs,
                 caseStack, rxLog, batch, boot, cls, wire>>

\* TestRunData.from_dict on the sidecar: the group normalized again; the
\* stored group_hash if the sidecar has one, else compute_group_hash(run.group)
from_dict(p) ==
  /\ grp.pc[p] = "stored"
  /\ \E has_group_hash \in BOOLEAN :
       LET group == normalize_group_payload(grp.group[p])
       IN grp' = [grp EXCEPT !.loaded[p] = IF has_group_hash THEN grp.group_hash[p]
                                           ELSE compute_group_hash(group),
                             !.pc[p] = IF has_group_hash THEN "loaded" ELSE "recomputed"]
  /\ UNCHANGED <<heap, test_runs, sidecar, dbRun, dbCase, run, tpc, loc, closed,
                 idle, gap, msgsLeft, ui, uiMode, bcFin, bcLate, touched,
                 lastRecv, caseLog, merged, nextEntry, viewer, uiErr, errs,
                 caseStack, rxLog, batch, boot, cls, wire>>

\* two run_started messages x and y: x carries any group of up to MaxMeta
\* metadata keys, y the same keys supplied in any order, with any url fields
\* and any spelling of the name
InitGroup ==
  /\ Fresh(0)
  /\ sidecar = [id \in RunIds |-> NoMeta]
  /\ dbRun = [id \in RunIds |-> NoRow]
  /\ dbCase = [id \in RunIds |-> [n \in TcNames |-> "absent"]]
  /\ boot = NoBoot /\ cls = NoCls /\ wire = <<>>
  /\ \E n \in 0..MaxMeta :
       \E keys \in [1..n -> {"os", "OS", " os", "arch"}],
          values \in [1..n -> {"x", "y"}],
          url \in [{"x", "y"} -> [1..n -> {"-", "u"}]],
          name \in [{"x", "y"} -> {"ci", " ci"}],
          order \in [1..n -> 1..n] :
         /\ \A i, j \in 1..n : i # j => keys[i] # keys[j] /\ order[i] # order[j]
         /\ grp = [raw |-> [p \in {"x", "y"} |->
                      [name |-> name[p],
                       metadata |-> [k \in 1..n |->
                          LET i == IF p = "x" THEN k ELSE order[k]
                          IN [key |-> keys[i], value |-> values[i], url |-> url[p][k]]]]],
                    pc |-> [p \in {"x", "y"} |-> "sent"],
                    group |-> [p \in {"x", "y"} |-> [name |-> "", metadata |-> <<>>]],
                    group_hash |-> [p \in {"x", "y"} |-> "-"],
                    loaded |-> [p \in {"x", "y"} |-> "-"]]

SpecGroup ==
  InitGroup /\ [][\E p \in {"x", "y"} : _handle_run_started_group(p) \/ from_dict(p)]_vars

\* ------------------------------------------------------ string interning
\* encode_interned_string, always returning the bare id
encode_interned_string_bare ==
  /\ Len(wire.frames) < Len(wire.input)
  /\ LET value == wire.input[Len(wire.frames) + 1]
         known == {e \in wire.string_table : e[1] = value}
     IN IF value = ""
        THEN wire' = [wire EXCEPT !.frames = Append(@, [kind |-> "none", id |-> 0, str |-> "-"])]
        ELSE IF known # {}
        THEN wire' = [wire EXCEPT !.frames =
                        Append(@, [kind |-> "id", id |-> (CHOOSE e \in known : TRUE)[2], str |-> "-"])]
        ELSE wire' = [wire EXCEPT !.frames =
                        Append(@, [kind |-> "id", id |-> wire.next_id, str |-> "-"]),
                                  !.string_table = @ \cup {<<value, wire.next_id>>},
                                  !.next_id = @ + 1]
  /\ UNCHANGED <<heap, test_runs, sidecar, dbRun, dbCase, run, tpc, loc, closed,
                 idle, gap, msgsLeft, ui, uiMode, bcFin, bcLate, touched,
                 lastRecv, caseLog, merged, nextEntry, viewer, uiErr, errs,
                 caseStack, rxLog, batch, boot, cls, grp>>

\* encode_interned_string(value, string_table, next_id_holder) on the next
\* string of the connection: None for an empty value, the id in string_table
\* for a known one, else [new_id, value] with string_table[value] = new_id
\* and next_id_holder[0] += 1
encode_interned_string ==
  /\ Len(wire.frames) < Len(wire.input)
  /\ LET value == wire.input[Len(wire.frames) + 1]
         known == {e \in wire.string_table : e[1] = value}
     IN IF value = ""
        THEN wire' = [wire EXCEPT !.frames = Append(@, [kind |-> "none", id |-> 0, str |-> "-"])]
        ELSE IF known # {}
        THEN wire' = [wire EXCEPT !.frames =
                        Append(@, [kind |-> "id", id |-> (CHOOSE e \in known : TRUE)[2], str |-> "-"])]
        ELSE wire' = [wire EXCEPT !.frames =
                        Append(@, [kind |-> "pair", id |-> wire.next_id, str |-> value]),
                                  !.string_table = @ \cup {<<value, wire.next_id>>},
                                  !.next_id = @ + 1]
  /\ UNCHANGED <<heap, test_runs, sidecar, dbRun, dbCase, run, tpc, loc, closed,
                 idle, gap, msgsLeft, ui, uiMode, bcFin, bcLate, touched,
                 lastRecv, caseLog, merged, nextEntry, viewer, uiErr, errs,
                 caseStack, rxLog, batch, boot, cls, grp>>

\* decode_interned_string(value, string_table) on the next value received:
\* an int is looked up with string_table.get(value, "<unknown:N>"), a pair
\* [id, string] sets string_table[id] = string and gives the string, None
\* gives ""
decode_interned_string ==
  /\ Len(wire.decoded) < Len(wire.frames)
  /\ LET value == wire.frames[Len(wire.decoded) + 1]
         found == {e \in wire.session_table : e[1] = value.id}
     IN CASE value.kind = "id" ->
               wire' = [wire EXCEPT !.decoded =
                          Append(@, IF found = {} THEN "<unknown:N>"
                                    ELSE (CHOOSE e \in found : TRUE)[2])]
          [] value.kind = "pair" ->
               wire' = [wire EXCEPT !.decoded = Append(@, value.str),
                                    !.session_table =
                                       (@ \ found) \cup {<<value.id, value.str>>}]
          [] value.kind = "none" ->
               wire' = [wire EXCEPT !.decoded = Append(@, "")]
  /\ UNCHANGED <<heap, test_runs, sidecar, dbRun, dbCase, run, tpc, loc, closed,
                 idle, gap, msgsLeft, ui, uiMode, bcFin, bcLate, touched,
                 lastRecv, caseLog, merged, nextEntry, viewer, uiErr, errs,
                 caseStack, rxLog, batch, boot, cls, grp>>

\* a connection about to send up to MaxStrings component/channel strings:
\* empty encoder table, any first id, empty session table on the server
InitIntern ==
  /\ Fresh(0)
  /\ sidecar = [id \in RunIds |-> NoMeta]
  /\ dbRun = [id \in RunIds |-> NoRow]
  /\ dbCase = [id \in RunIds |-> [n \in TcNames |-> "absent"]]
  /\ boot = NoBoot /\ cls = NoCls /\ grp = <<>>
  /\ \E n \in 0..MaxStrings :
       \E input \in [1..n -> {"", "uart", "can"}], next_id \in {0, 1} :
         wire = [input |-> input, string_table |-> {}, next_id |-> next_id,
                 frames |-> <<>>, session_table |-> {}, decoded |-> <<>>]

SpecIntern == InitIntern /\ [][encode_interned_string \/ decode_interned_string]_vars

\* ------------------------------------------------------- task bookkeeping
At(s, k, p) == tpc[<<s, k>>] = p

Goto(s, k, p, l) ==
  /\ tpc' = [tpc EXCEPT ![<<s, k>>] = p]
  /\ loc' = [loc EXCEPT ![<<s, k>>] = l]

\* where a coroutine returns to: the receive loop, the finally block of
\* handle_nunit_ws, its end (monitor_task.cancel()), or the monitor's break
Finish(s, ret) ==
  CASE ret = "recv"     -> Goto(s, "main", "recv", NoLoc)
    [] ret = "finally"  -> Goto(s, "main", "finally", NoLoc)
    [] ret = "mon_done" -> Goto(s, "mon", "done", NoLoc)
    [] ret = "cancel"   ->
         /\ tpc' = [tpc EXCEPT ![<<s, "main">>] = "done", ![<<s, "mon">>] = "done"]
         /\ loc' = [loc EXCEPT ![<<s, "main">>] = NoLoc, ![<<s, "mon">>] = NoLoc]

\* an exception leaves the coroutine: the monitor's `except Exception: break`,
\* or handle_nunit_ws ending without reaching monitor_task.cancel()
Raise(s, k) ==
  IF k = "mon" THEN Goto(s, "mon", "done", NoLoc)
               ELSE Goto(s, "main", "done", NoLoc)

Touch(o, s) == touched' = [touched EXCEPT ![o] = @ \cup {s}]

\* ------------------------------------------------------- mark_run_aborted
\* entry up to the first await: the guard is the caller's / the early returns
mark_run_aborted(s, k, reason, ret) ==
  LET o == run[s]
      r == heap[o]
      names == RunningIn(r, r.order)
      r2 == [AbortCases(r) EXCEPT !.status = "aborted", !.reason = reason]
  IN /\ heap' = [heap EXCEPT ![o] = r2]
     /\ write_meta_msgpack(r.id, to_dict(r2))
     /\ Touch(o, s)
     /\ IF names # <<>>
        THEN Goto(s, k, "ab_tc_db",
                  [NoLoc EXCEPT !.o = o, !.todo = names, !.rid = r.id, !.ret = ret,
                                !.counts = _count_test_statuses(r2)])
        ELSE Goto(s, k, "ab_db", [NoLoc EXCEPT !.o = o, !.rid = r.id, !.ret = ret])

\* await database.log_test_case_finished(run.id, tc_full_name, 'aborted')
mark_run_aborted_tc_db(s, k) ==
  /\ At(s, k, "ab_tc_db")
  /\ LET l == loc[<<s, k>>]
         n == Head(l.todo)
     IN /\ dbCase' = IF dbCase[l.rid][n] # "absent"
                     THEN [dbCase EXCEPT ![l.rid][n] = "aborted"] ELSE dbCase
        /\ IF run[s] = NoRun
           THEN Raise(s, k)
           ELSE Goto(s, k, "ab_tc_bc", [l EXCEPT !.bo = run[s]])
  /\ UNCHANGED <<heap, test_runs, sidecar, dbRun, run, closed, idle, gap,
                 msgsLeft, ui, uiMode, bcFin, bcLate, touched, lastRecv,
                 caseLog, merged, nextEntry, viewer,
                 uiErr,
                 errs,
                 caseStack,
                 rxLog,
                 batch,
                 boot,
                 cls,
                 grp,
                 wire>>

\* await self.broadcast_ui({"type": "test_case_finished", ...}), next iteration
mark_run_aborted_tc_bc(s, k) ==
  /\ At(s, k, "ab_tc_bc")
  /\ LET l == loc[<<s, k>>]
         rest == Tail(l.todo)
     IN /\ broadcast_ui("test_case_finished", l.bo)
        /\ IF rest # <<>>
           THEN IF run[s] = NoRun \/ heap[run[s]].tcs[Head(rest)] = 0
                THEN Raise(s, k)
                ELSE Goto(s, k, "ab_tc_db",
                          [l EXCEPT !.todo = rest, !.rid = heap[run[s]].id])
           ELSE IF run[s] = NoRun
                THEN Goto(s, k, "ab_bc", [l EXCEPT !.todo = rest])
                ELSE Goto(s, k, "ab_db",
                          [l EXCEPT !.todo = rest, !.rid = heap[run[s]].id])
  /\ UNCHANGED <<heap, test_runs, sidecar, dbRun, dbCase, run, closed, idle,
                 gap, msgsLeft, uiMode, touched, lastRecv,
                 caseLog, merged, nextEntry, viewer,
                 uiErr,
                 errs,
                 caseStack,
                 rxLog,
                 batch,
                 boot,
                 cls,
                 grp,
                 wire>>

\* await database.log_test_run_finished(run.id, "aborted")
mark_run_aborted_db(s, k) ==
  /\ At(s, k, "ab_db")
  /\ LET l == loc[<<s, k>>]
     IN /\ dbRun' = IF dbRun[l.rid].exists
                    THEN [dbRun EXCEPT ![l.rid].status = "aborted"] ELSE dbRun
        /\ Goto(s, k, "ab_bc", l)
  /\ UNCHANGED <<heap, test_runs, sidecar, dbCase, run, closed, idle, gap,
                 msgsLeft, ui, uiMode, bcFin, bcLate, touched, lastRecv,
                 caseLog, merged, nextEntry, viewer,
                 uiErr,
                 errs,
                 caseStack,
                 rxLog,
                 batch,
                 boot,
                 cls,
                 grp,
                 wire>>

\* await self.broadcast_ui({"type": "run_finished", "run": run_data}), del
mark_run_aborted_bc(s, k) ==
  /\ At(s, k, "ab_bc")
  /\ LET l == loc[<<s, k>>]
     IN /\ broadcast_ui("run_finished", l.o)
        /\ IF run[s] = NoRun
           THEN Raise(s, k) /\ UNCHANGED test_runs
           ELSE /\ test_runs' = [test_runs EXCEPT ![heap[run[s]].id] = NoRun]
                /\ Finish(s, l.ret)
  /\ UNCHANGED <<heap, sidecar, dbRun, dbCase, run, closed, idle, gap,
                 msgsLeft, uiMode, touched, lastRecv,
                 caseLog, merged, nextEntry, viewer,
                 uiErr,
                 errs,
                 caseStack,
                 rxLog,
                 batch,
                 boot,
                 cls,
                 grp,
                 wire>>

\* ----------------------------------------------------- monitor_connection
IsRunning(s) == run[s] # NoRun /\ heap[run[s]].status = "running"

\* last_activity is read only while the session's run is running: the
\* distance to it is tracked from the receipt of a run_started that is being
\* handled, and while the session's run is running
Timed(s) ==
  /\ tpc[<<s, "main">>] # "done"
  /\ IsRunning(s) \/ tpc[<<s, "main">>] \in {"rs_get", "rs_names", "rs_ins", "rs_bc"}

\* time passes for the sessions SS: asyncio.sleep(5) of every sleeping monitor
\* expires
Tick(SS) ==
  /\ \A s \in SS : tpc[<<s, "mon">>] \notin {"due", "ping"}
  /\ \E s \in SS : tpc[<<s, "main">>] # "done"
  /\ idle' = [s \in Sessions |->
               IF s \in SS /\ Timed(s) THEN Min(idle[s] + TickSeconds, IdleCap) ELSE 0]
  /\ gap' = [s \in Sessions |->
              IF s \in SS /\ Timed(s) THEN Min(gap[s] + TickSeconds, IdleCap) ELSE 0]
  /\ tpc' = [t \in Tasks |-> IF t[1] \in SS /\ tpc[t] = "sleep" THEN "due" ELSE tpc[t]]
  /\ UNCHANGED <<heap, test_runs, sidecar, dbRun, dbCase, run, loc, closed,
                 msgsLeft, ui, uiMode, bcFin, bcLate, touched, lastRecv,
                 caseLog, merged, nextEntry, viewer,
                 uiErr,
                 errs,
                 caseStack,
                 rxLog,
                 batch,
                 boot,
                 cls,
                 grp,
                 wire>>

\* the iteration up to `await ws.ping()`
monitor_connection(s) ==
  /\ At(s, "mon", "due")
  /\ IF ~IsRunning(s)
     THEN /\ Goto(s, "mon", "done", NoLoc)
          /\ UNCHANGED <<heap, sidecar, touched>>
     ELSE IF closed[s]
          THEN mark_run_aborted(s, "mon", "WebSocket closed", "mon_done")
          ELSE /\ Goto(s, "mon", "ping", NoLoc)
               /\ UNCHANGED <<heap, sidecar, touched>>
  /\ UNCHANGED <<test_runs, dbRun, dbCase, run, closed, idle, gap, msgsLeft,
                 ui, uiMode, bcFin, bcLate, lastRecv,
                 caseLog, merged, nextEntry, viewer,
                 uiErr,
                 errs,
                 caseStack,
                 rxLog,
                 batch,
                 boot,
                 cls,
                 grp,
                 wire>>

\* await ws.ping() raised: the monitor stops and leaves the run alone
monitor_ping_failed(s) ==
  /\ At(s, "mon", "ping")
  /\ Goto(s, "mon", "done", NoLoc)
  /\ UNCHANGED <<heap, test_runs, sidecar, dbRun, dbCase, run, closed, idle,
                 gap, msgsLeft, ui, uiMode, bcFin, bcLate, touched, lastRecv,
                 caseLog, merged, nextEntry, viewer,
                 uiErr,
                 errs,
                 caseStack,
                 rxLog,
                 batch,
                 boot,
                 cls,
                 grp,
                 wire>>

\* await ws.ping() returned: the inactivity check
monitor_ping_ok(s) ==
  /\ At(s, "mon", "ping")
  /\ IF IsRunning(s) /\ idle[s] > TimeoutSeconds
     THEN mark_run_aborted(s, "mon", "Connection timeout", "mon_done")
     ELSE /\ Goto(s, "mon", "sleep", NoLoc)
          /\ UNCHANGED <<heap, sidecar, touched>>
  /\ UNCHANGED <<test_runs, dbRun, dbCase, run, closed, idle, gap, msgsLeft,
                 ui, uiMode, bcFin, bcLate, lastRecv,
                 caseLog, merged, nextEntry, viewer,
                 uiErr,
                 errs,
                 caseStack,
                 rxLog,
                 batch,
                 boot,
                 cls,
                 grp,
                 wire>>

\* ------------------------------------------------- handle_nunit_ws: receive
\* a receive loop that does not count heartbeats as activity
last_activity_stale(type, old) == IF type = "heartbeat" THEN old ELSE 0

\* `last_activity = datetime.now(UTC)` at the head of the loop body: the new
\* distance between last_activity and now
last_activity(type, old) == 0

CanRecv(s) ==
  /\ At(s, "main", "recv") /\ ~closed[s] /\ msgsLeft[s] > 0
  /\ batch.events[s] = <<>>

Received(s, type) ==
  /\ idle' = [idle EXCEPT ![s] = last_activity(type, @)]
  /\ gap' = [gap EXCEPT ![s] = 0]
  /\ msgsLeft' = [msgsLeft EXCEPT ![s] = @ - 1]
  /\ lastRecv' = [lastRecv EXCEPT ![s] =
                     IF type \in {"heartbeat", "undecodable"} THEN type ELSE "frame"]

\* the session that sends the events of the script as frames of their own
Separate == 2

\* the session that sends the script as one batch frame
Batched == 1

\* how a handler of a test case event comes to run: the receive loop got the
\* frame, or _handle_batch's loop reached the event (the receive loop is then
\* not at `async for msg in ws`, and nothing is received). The handlers are
\* given the raw entries and read no component
Takes(s, ev) ==
  \/ /\ batch.script = <<>>
     /\ CanRecv(s)
     /\ Received(s, ev.type)
     /\ UNCHANGED batch
  \/ /\ batch.script # <<>>
     /\ s = Separate
     /\ batch.sent < Len(batch.script)
     /\ ev = [batch.script[batch.sent + 1] EXCEPT !.rid = heap[run[s]].id,
                                                  !.comp = "-"]
     /\ CanRecv(s)
     /\ Received(s, ev.type)
     /\ batch' = [batch EXCEPT !.sent = @ + 1]
  \/ /\ At(s, "main", "recv")
     /\ batch.events[s] # <<>>
     /\ ev = [Head(batch.events[s]) EXCEPT !.comp = "-"]
     /\ batch' = [batch EXCEPT !.events[s] = Tail(@)]
     /\ UNCHANGED <<idle, gap, msgsLeft, lastRecv>>

\* the broadcasts about run object o, in the order emitted, kept for the
\* batch comparison
Broadcast(type, o) ==
  batch' = IF batch.script = <<>> THEN batch
           ELSE [batch EXCEPT !.bc[o] = Append(@, type)]

\* `except Exception as e: ... continue` around unpackb and
\* normalize_message: the frame is dropped and the loop goes on to the next
\* one. The frame is one of any kind, the batch frame of the script when one
\* of its events does not decode, or the next event of the script sent as a
\* frame of its own
handle_nunit_ws_parse_error(s) ==
  /\ CanRecv(s)
  /\ \/ /\ batch.script = <<>>
        /\ UNCHANGED batch
     \/ /\ batch.script # <<>>
        /\ s = Batched
        /\ normalize_message_raises(batch.script)
        /\ UNCHANGED batch
     \/ /\ batch.script # <<>>
        /\ s = Separate
        /\ batch.sent < Len(batch.script)
        /\ normalize_log_entry_raises(batch.script[batch.sent + 1])
        /\ batch' = [batch EXCEPT !.sent = @ + 1]
  /\ Received(s, "undecodable")
  /\ UNCHANGED <<heap, test_runs, sidecar, dbRun, dbCase, run, tpc, loc,
                 closed, ui, uiMode, bcFin, bcLate, touched,
                 caseLog, merged, nextEntry, viewer,
                 uiErr,
                 errs,
                 caseStack,
                 rxLog,
                 boot,
                 cls,
                 grp,
                 wire>>

\* a log_batch frame whose first entry introduces a component as the pair
\* [id, "uart"] and whose second entry is not a map: decode_interned_string
\* has put the pair into string_table when normalize_log_entry raises on the
\* second entry, and string_table is the dict the session's run holds as
\* run.string_table. The frame is dropped as any frame that does not decode
handle_nunit_ws_parse_error_interned(s) ==
  /\ CanRecv(s)
  /\ batch.script = <<>>
  /\ run[s] # NoRun
  /\ Received(s, "undecodable")
  /\ heap' = [heap EXCEPT ![run[s]].string_table = @ \cup {"uart"}]
  /\ UNCHANGED <<test_runs, sidecar, dbRun, dbCase, run, tpc, loc,
                 closed, ui, uiMode, bcFin, bcLate, touched,
                 caseLog, merged, nextEntry, viewer,
                 uiErr,
                 errs,
                 caseStack,
                 rxLog,
                 batch,
                 boot,
                 cls,
                 grp,
                 wire>>

\* heartbeat: nothing but the receipt
heartbeat(s) ==
  /\ CanRecv(s)
  /\ Received(s, "heartbeat")
  /\ UNCHANGED <<heap, test_runs, sidecar, dbRun, dbCase, run, tpc, loc,
                 closed, ui, uiMode, bcFin, bcLate, touched,
                 caseLog, merged, nextEntry, viewer,
                 uiErr,
                 errs,
                 caseStack,
                 rxLog,
                 batch,
                 boot,
                 cls,
                 grp,
                 wire>>

\* ---------------------------------------------------- _handle_run_started
\* get_unique_run_name, up to its await: run_name of the runs in test_runs
memory_names == {heap[test_runs[id]].name : id \in {i \in RunIds : test_runs[i] # NoRun}}

\* get_unique_run_name, after its await: the base name if it is free among
\* existing_names, else the first "base N" that is
get_unique_run_name(existing_names) ==
  IF 0 \notin existing_names THEN 0
  ELSE CHOOSE n \in 1..(MaxRuns + 1) :
         /\ n \notin existing_names
         /\ \A k \in 1..(n - 1) : k \in existing_names

RunsInMaking == Cardinality({s \in Sessions : tpc[<<s, "main">>] \in {"rs_get", "rs_names"}})

\* up to `await database.db.get_test_run_by_id(client_run_id)`
_handle_run_started(s, rid) ==
  /\ CanRecv(s)
  /\ Received(s, "run_started")
  /\ IF test_runs[rid] # NoRun
     THEN /\ run' = [run EXCEPT ![s] = NoRun]
          /\ errs' = [errs EXCEPT ![s] = @ + 1]
          /\ UNCHANGED <<tpc, loc>>
     ELSE /\ Len(heap) + RunsInMaking < MaxRuns
          /\ Goto(s, "main", "rs_get", [NoLoc EXCEPT !.rid = rid])
          /\ UNCHANGED <<run, errs>>
  /\ UNCHANGED <<heap, test_runs, sidecar, dbRun, dbCase, closed, ui, uiMode,
                 bcFin, bcLate, touched,
                 caseLog, merged, nextEntry, viewer,
                 uiErr,
                 caseStack,
                 rxLog,
                 batch,
                 boot,
                 cls,
                 grp,
                 wire>>

\* the index was asked; on a hit the error response is sent and None returned
_handle_run_started_get(s) ==
  /\ At(s, "main", "rs_get")
  /\ IF get_test_run_by_id(loc[<<s, "main">>].rid)
     THEN /\ run' = [run EXCEPT ![s] = NoRun]
          /\ errs' = [errs EXCEPT ![s] = @ + 1]
          /\ Goto(s, "main", "recv", NoLoc)
     ELSE /\ Goto(s, "main", "rs_names",
                  [loc[<<s, "main">>] EXCEPT !.names = memory_names])
          /\ UNCHANGED <<run, errs>>
  /\ UNCHANGED <<heap, test_runs, sidecar, dbRun, dbCase, closed, idle, gap,
                 msgsLeft, ui, uiMode, bcFin, bcLate, touched, lastRecv,
                 caseLog, merged, nextEntry, viewer,
                 uiErr,
                 caseStack,
                 rxLog,
                 batch,
                 boot,
                 cls,
                 grp,
                 wire>>

\* get_unique_run_name returned: the run is constructed, put into test_runs
\* (popping an entry of the same id) and its sidecar written
_handle_run_started_create(s) ==
  /\ At(s, "main", "rs_names")
  /\ LET l == loc[<<s, "main">>]
         o == Len(heap) + 1
         r == TestRunData(l.rid, s,
                get_unique_run_name(l.names \cup get_run_names_starting_with))
     IN /\ heap' = Append(heap, r)
        /\ test_runs' = [test_runs EXCEPT ![l.rid] = o]
        /\ write_meta_msgpack(l.rid, to_dict(r))
        /\ Goto(s, "main", "rs_ins", [l EXCEPT !.o = o])
  /\ UNCHANGED <<dbRun, dbCase, run, closed, idle, gap, msgsLeft, ui, uiMode,
                 bcFin, bcLate, touched, lastRecv,
                 caseLog, merged, nextEntry, viewer,
                 uiErr,
                 errs,
                 caseStack,
                 rxLog,
                 batch,
                 boot,
                 cls,
                 grp,
                 wire>>

\* TestResultsDatabase.insert_test_run: INSERT OR REPLACE; replacing a row
\* deletes it first, and its test_cases with it (ON DELETE CASCADE)
insert_test_run(s) ==
  /\ At(s, "main", "rs_ins")
  /\ LET l == loc[<<s, "main">>]
     IN /\ dbRun' = [dbRun EXCEPT ![l.rid] =
                       [exists |-> TRUE, status |-> "running", gen |-> l.o,
                        name |-> heap[l.o].name]]
        /\ dbCase' = IF dbRun[l.rid].exists
                     THEN [dbCase EXCEPT ![l.rid] = [n \in TcNames |-> "absent"]]
                     ELSE dbCase
        /\ Goto(s, "main", "rs_bc", l)
  /\ UNCHANGED <<heap, test_runs, sidecar, run, closed, idle, gap, msgsLeft,
                 ui, uiMode, bcFin, bcLate, touched, lastRecv,
                 caseLog, merged, nextEntry, viewer,
                 uiErr,
                 errs,
                 caseStack,
                 rxLog,
                 batch,
                 boot,
                 cls,
                 grp,
                 wire>>

\* broadcast run_started, answer the runner, `run = ` the new run
_handle_run_started_bc(s) ==
  /\ At(s, "main", "rs_bc")
  /\ broadcast_ui("run_started", loc[<<s, "main">>].o)
  /\ run' = [run EXCEPT ![s] = loc[<<s, "main">>].o]
  /\ Goto(s, "main", "recv", NoLoc)
  /\ UNCHANGED <<heap, test_runs, sidecar, dbRun, dbCase, closed, idle, gap,
                 msgsLeft, uiMode, touched, lastRecv,
                 caseLog, merged, nextEntry, viewer,
                 uiErr,
                 errs,
                 caseStack,
                 rxLog,
                 batch,
                 boot,
                 cls,
                 grp,
                 wire>>

\* ------------------------------------------------ _handle_test_case_started
\* up to `await database.log_test_case_started(...)`
_handle_test_case_started(s, rid, name, tcid, status) ==
  /\ Takes(s, Event("test_case_started", rid, name, tcid, status, <<>>))
  /\ LET o == test_runs[rid] IN
     IF o = NoRun
     THEN UNCHANGED <<heap, tpc, loc, touched>>
     ELSE LET r == heap[o]
              i == Len(r.objs) + 1
          IN /\ i <= MaxCaseObjs
             /\ heap' = [heap EXCEPT ![o] =
                  [r EXCEPT !.objs = Append(@, TestCaseData(name, tcid, status,
                                                            caseStack[r.id][tcid])),
                            !.tcs[name] = i,
                            !.byId[tcid] = i,
                            !.order = IF r.tcs[name] = 0 THEN Append(@, name) ELSE @]]
             /\ Touch(o, s)
             /\ Goto(s, "main", "tcs_db",
                     [NoLoc EXCEPT !.o = o, !.rid = r.id, !.cur = name])
  /\ UNCHANGED <<test_runs, sidecar, dbRun, dbCase, run, closed, ui, uiMode,
                 bcFin, bcLate,
                 caseLog, merged, nextEntry, viewer,
                 uiErr,
                 errs,
                 caseStack,
                 rxLog,
                 boot,
                 cls,
                 grp,
                 wire>>

\* log_test_case_started / insert_test_case (fails on a missing run row:
\* foreign key), then the sidecar is rewritten
_handle_test_case_started_db(s) ==
  /\ At(s, "main", "tcs_db")
  /\ LET l == loc[<<s, "main">>]
     IN /\ dbCase' = IF dbRun[l.rid].exists
                     THEN [dbCase EXCEPT ![l.rid][l.cur] = "running"] ELSE dbCase
        /\ write_meta_msgpack(l.rid, to_dict(heap[l.o]))
        /\ Goto(s, "main", "tcs_bc", [l EXCEPT !.counts = _count_test_statuses(heap[l.o])])
  /\ UNCHANGED <<heap, test_runs, dbRun, run, closed, idle, gap, msgsLeft, ui,
                 uiMode, bcFin, bcLate, touched, lastRecv,
                 caseLog, merged, nextEntry, viewer,
                 uiErr,
                 errs,
                 caseStack,
                 rxLog,
                 batch,
                 boot,
                 cls,
                 grp,
                 wire>>

_handle_test_case_started_bc(s) ==
  /\ At(s, "main", "tcs_bc")
  /\ broadcast_ui("test_case_started", loc[<<s, "main">>].o)
  /\ Broadcast("test_case_started", loc[<<s, "main">>].o)
  /\ Goto(s, "main", "recv", NoLoc)
  /\ UNCHANGED <<heap, test_runs, sidecar, dbRun, dbCase, run, closed, idle,
                 gap, msgsLeft, uiMode, touched, lastRecv,
                 caseLog, merged, nextEntry, viewer,
                 uiErr,
                 errs,
                 caseStack,
                 rxLog,
                 boot,
                 cls,
                 grp,
                 wire>>

\* ----------------------------------------------- _handle_test_case_finished
\* up to the first broadcast (test_case_updated)
_handle_test_case_finished(s, rid, tcid, status) ==
  /\ Takes(s, Event("test_case_finished", rid, "-", tcid, status, <<>>))
  /\ LET o == test_runs[rid] IN
     IF o = NoRun \/ heap[o].byId[tcid] = 0 \/ lower(status) \notin ValidCaseStatuses
     THEN UNCHANGED <<heap, tpc, loc, touched>>
     ELSE LET i == heap[o].byId[tcid]
          IN /\ heap' = [heap EXCEPT ![o].objs[i].status = lower(status)]
             /\ Touch(o, s)
             /\ Goto(s, "main", "tcf_bc1",
                     [NoLoc EXCEPT !.o = o, !.rid = heap[o].id,
                                   !.cur = heap[o].objs[i].name, !.sz = i,
                                   !.counts = _count_test_statuses(heap'[o])])
  /\ UNCHANGED <<test_runs, sidecar, dbRun, dbCase, run, closed, ui, uiMode,
                 bcFin, bcLate,
                 caseLog, merged, nextEntry, viewer,
                 uiErr,
                 errs,
                 caseStack,
                 rxLog,
                 boot,
                 cls,
                 grp,
                 wire>>

\* test_case_updated was broadcast; the sidecar is rewritten and
\* log_test_case_finished called with the case's status of that moment
_handle_test_case_finished_bc1(s) ==
  /\ At(s, "main", "tcf_bc1")
  /\ LET l == loc[<<s, "main">>]
     IN /\ broadcast_ui("test_case_updated", l.o)
        /\ Broadcast("test_case_updated", l.o)
        /\ write_meta_msgpack(l.rid, to_dict(heap[l.o]))
        /\ Goto(s, "main", "tcf_db", [l EXCEPT !.st = heap[l.o].objs[l.sz].status])
  /\ UNCHANGED <<heap, test_runs, dbRun, dbCase, run, closed, idle, gap,
                 msgsLeft, uiMode, touched, lastRecv,
                 caseLog, merged, nextEntry, viewer,
                 uiErr,
                 errs,
                 caseStack,
                 rxLog,
                 boot,
                 cls,
                 grp,
                 wire>>

\* log_test_case_finished: UPDATE test_cases ... WHERE run_id, tc_full_name
log_test_case_finished(s) ==
  /\ At(s, "main", "tcf_db")
  /\ LET l == loc[<<s, "main">>]
     IN /\ dbCase' = IF dbCase[l.rid][l.cur] # "absent"
                     THEN [dbCase EXCEPT ![l.rid][l.cur] = l.st] ELSE dbCase
        /\ Goto(s, "main", "tcf_bc2", l)
  /\ UNCHANGED <<heap, test_runs, sidecar, dbRun, run, closed, idle, gap,
                 msgsLeft, ui, uiMode, bcFin, bcLate, touched, lastRecv,
                 caseLog, merged, nextEntry, viewer,
                 uiErr,
                 errs,
                 caseStack,
                 rxLog,
                 batch,
                 boot,
                 cls,
                 grp,
                 wire>>

_handle_test_case_finished_bc2(s) ==
  /\ At(s, "main", "tcf_bc2")
  /\ broadcast_ui("test_case_finished", loc[<<s, "main">>].o)
  /\ Broadcast("test_case_finished", loc[<<s, "main">>].o)
  /\ Goto(s, "main", "recv", NoLoc)
  /\ UNCHANGED <<heap, test_runs, sidecar, dbRun, dbCase, run, closed, idle,
                 gap, msgsLeft, uiMode, touched, lastRecv,
                 caseLog, merged, nextEntry, viewer,
                 uiErr,
                 errs,
                 caseStack,
                 rxLog,
                 boot,
                 cls,
                 grp,
                 wire>>

\* ----------------------------------------------------------- _handle_batch
\* `for event, raw_event in zip(events, raw_events)`, with
\* `event["run_id"] = run_id`: the events as the loop hands them to the
\* handlers
batch_events(rid, events) ==
  [k \in 1..Len(events) |-> [events[k] EXCEPT !.rid = rid]]

\* _handle_batch up to the first event: without a run of the session and
\* without a run of that run_id in test_runs the frame is dropped
_handle_batch(s, rid, events) ==
  /\ CanRecv(s)
  /\ ~normalize_message_raises(events)
  /\ Received(s, "batch")
  /\ batch' = IF run[s] = NoRun /\ test_runs[rid] = NoRun
              THEN batch
              ELSE [batch EXCEPT !.events[s] = batch_events(rid, events)]
  /\ UNCHANGED <<heap, test_runs, sidecar, dbRun, dbCase, run, tpc, loc,
                 closed, ui, uiMode, bcFin, bcLate, touched,
                 caseLog, merged, nextEntry, viewer,
                 uiErr,
                 errs,
                 caseStack,
                 rxLog,
                 boot,
                 cls,
                 grp,
                 wire>>

\* --------------------------------------------------------- _handle_metrics
\* without a run, or with no samples, the handler returns; with samples
\* `run.metrics.append` raises AttributeError (TestRunData has no metrics
\* attribute) into the handler's catch-all, before the broadcast
_handle_metrics(s) ==
  /\ CanRecv(s)
  /\ Received(s, "metrics")
  /\ UNCHANGED <<heap, test_runs, sidecar, dbRun, dbCase, run, tpc, loc,
                 closed, ui, uiMode, bcFin, bcLate, touched,
                 caseLog, merged, nextEntry, viewer,
                 uiErr,
                 errs,
                 caseStack,
                 rxLog,
                 batch,
                 boot,
                 cls,
                 grp,
                 wire>>

\* ------------------------------------------------------- _handle_log_batch
\* a compact log entry as the runner sends it: n stands for its text, ts is
\* the runner's clock, which advances with every entry and exception sent
LogEntry(n, has_ts) == IF has_ts THEN [n |-> n, ts |-> n] ELSE [n |-> n]

\* the shapes of the entries array of a log_batch frame: for each entry,
\* whether it carries ts
BatchShapes == UNION {[1..k -> BOOLEAN] : k \in 1..MaxBatch}

\* the entries array of shape has_ts sent when the runner's clock is n
Entries(n, has_ts) == [k \in 1..Len(has_ts) |-> LogEntry(n + k - 1, has_ts[k])]

\* TestCaseData.add_log_entries: the entries that are dicts with a 'ts' key
valid_entries(raw_entries) ==
  SelectSeq(raw_entries, LAMBDA entry : "ts" \in DOMAIN entry)

\* up to `await write_mplog_entries_async(log_path, valid_entries)`;
\* add_log_entries returns before it when no entry is valid
_handle_log_batch(s, rid, tcid, has_ts) ==
  /\ Takes(s, Event("log_batch", rid, "-", tcid, "-", has_ts))
  /\ batch.script # <<>> \/ nextEntry + Len(has_ts) - 1 <= MaxEntries
  /\ nextEntry' = nextEntry + Len(has_ts)
  /\ LET o == test_runs[rid] IN
     IF o = NoRun \/ heap[o].byId[tcid] = 0
     THEN UNCHANGED <<tpc, loc, rxLog>>
     ELSE LET i == heap[o].byId[tcid]
              raw_entries == Entries(nextEntry, has_ts)
          IN /\ rxLog' = [rxLog EXCEPT ![heap[o].id][heap[o].objs[i].tcid] =
                    @ \o [k \in 1..Len(raw_entries) |->
                            [obj |-> i, name |-> heap[o].objs[i].name,
                             entry |-> raw_entries[k]]]]
             /\ IF valid_entries(raw_entries) = <<>>
                THEN UNCHANGED <<tpc, loc>>
                ELSE Goto(s, "main", "lb_write",
                          [NoLoc EXCEPT !.o = o, !.sz = i, !.rid = heap[o].id,
                                        !.cur = heap[o].objs[i].tcid,
                                        !.it = valid_entries(raw_entries)])
  /\ UNCHANGED <<heap, test_runs, sidecar, dbRun, dbCase, run, closed, ui,
                 uiMode, bcFin, bcLate, touched, caseLog, merged, viewer,
                 uiErr,
                 errs,
                 caseStack,
                 boot,
                 cls,
                 grp,
                 wire>>

\* write_mplog_entries_async(path, entries): the entries are appended to the
\* file as records
write_mplog_entries_async(file, entries) == file \o entries

\* every subscriber's queue gets the entries (asyncio.Queue() is unbounded:
\* put never suspends)
RECURSIVE Notify(_, _, _)
Notify(vw, subs, entries) ==
  IF subs = <<>> THEN vw
  ELSE Notify([vw EXCEPT ![Head(subs)].q = @ \o entries], Tail(subs), entries)

\* TestCaseData.add_log_entries past the write: logs.extend, subscribers
add_log_entries(s) ==
  /\ At(s, "main", "lb_write")
  /\ LET l == loc[<<s, "main">>]
     IN /\ caseLog' = [caseLog EXCEPT ![l.rid][l.cur] =
                                     write_mplog_entries_async(@, l.it)]
        /\ heap' = [heap EXCEPT ![l.o].objs[l.sz].logs = @ \o l.it]
        /\ viewer' = Notify(viewer, heap[l.o].objs[l.sz].subscribers, l.it)
        /\ Touch(l.o, s)
        /\ Goto(s, "main", "recv", NoLoc)
  /\ UNCHANGED <<test_runs, sidecar, dbRun, dbCase, run, closed, idle, gap,
                 msgsLeft, ui, uiMode, bcFin, bcLate, lastRecv, merged, nextEntry,
                 uiErr,
                 errs,
                 caseStack,
                 rxLog,
                 batch,
                 boot,
                 cls,
                 grp,
                 wire>>

\* -------------------------------------------------------- _handle_exception
\* protocol.ms_to_timestamp: "" for 0, else the ISO 8601 string of the
\* instant; a string is modelled by its rank in string order: 0 is "", and
\* the fixed-width ISO strings are ordered as their instants
ms_to_timestamp(ms) == IF ms = 0 THEN 0 ELSE ms

\* trace_entry of _handle_exception: its timestamp is the frame's ts as
\* normalize_message converted it
trace_entry(n) == [n |-> n, timestamp |-> ms_to_timestamp(n)]

\* the payload add_stack_trace puts on the subscriber queues
exception_payload(entry) ==
  [type |-> "exception", n |-> entry.n, timestamp |-> entry.timestamp]

\* up to `await write_mplog_entries_async(stack_path, [entry])`
_handle_exception(s, rid, tcid) ==
  /\ Takes(s, Event("exception", rid, "-", tcid, "-", <<>>))
  /\ batch.script # <<>> \/ nextEntry <= MaxEntries
  /\ nextEntry' = nextEntry + 1
  /\ LET o == test_runs[rid] IN
     IF o = NoRun \/ heap[o].byId[tcid] = 0
     THEN UNCHANGED <<tpc, loc, rxLog>>
     ELSE LET i == heap[o].byId[tcid]
          IN /\ rxLog' = [rxLog EXCEPT ![heap[o].id][heap[o].objs[i].tcid] =
                    Append(@, [obj |-> i, name |-> heap[o].objs[i].name,
                               entry |-> trace_entry(nextEntry)])]
             /\ Goto(s, "main", "ex_write",
                     [NoLoc EXCEPT !.o = o, !.sz = i, !.rid = heap[o].id,
                                   !.cur = heap[o].objs[i].tcid,
                                   !.it = <<trace_entry(nextEntry)>>])
  /\ UNCHANGED <<heap, test_runs, sidecar, dbRun, dbCase, run, closed, ui,
                 uiMode, bcFin, bcLate, touched, caseLog, merged, viewer,
                 uiErr, errs, caseStack,
                 boot,
                 cls,
                 grp,
                 wire>>

\* TestCaseData.add_stack_trace past the write: stack_traces is re-read from
\* the stack file, the payload is put on the subscriber queues; then
\* _handle_exception rewrites the sidecar
add_stack_trace(s) ==
  /\ At(s, "main", "ex_write")
  /\ LET l == loc[<<s, "main">>]
         file == write_mplog_entries_async(caseStack[l.rid][l.cur], l.it)
         h == [heap EXCEPT ![l.o].objs[l.sz].stack_traces = file]
     IN /\ caseStack' = [caseStack EXCEPT ![l.rid][l.cur] = file]
        /\ heap' = h
        /\ viewer' = Notify(viewer, heap[l.o].objs[l.sz].subscribers,
                            <<exception_payload(l.it[1])>>)
        /\ write_meta_msgpack(l.rid, to_dict(h[l.o]))
        /\ Touch(l.o, s)
        /\ Goto(s, "main", "recv", NoLoc)
  /\ UNCHANGED <<test_runs, dbRun, dbCase, run, closed, idle, gap,
                 msgsLeft, ui, uiMode, bcFin, bcLate, lastRecv, caseLog, merged,
                 nextEntry, uiErr, errs, rxLog,
                 batch,
                 boot,
                 cls,
                 grp,
                 wire>>

\* ---------------------------------------------------- _handle_run_finished
\* `run = None` follows the handler in the receive loop and in finally
ClearRun(s) == run' = [run EXCEPT ![s] = NoRun]

\* the loop of _merge_logs_for_run over run.test_cases.items(): for each case
\* the records of the log file and then of the stack file of its tc_id are
\* appended to the archive, and the case gets log_offset (counted in records
\* here, in bytes in the code), log_count and stack_count
RECURSIVE MergeFrom(_, _, _)
MergeFrom(r, names, data) ==
  IF names = <<>> THEN [data |-> data, objs |-> r.objs]
  ELSE LET i == r.tcs[Head(names)]
           logs == caseLog[r.id][r.objs[i].tcid]
           stacks == caseStack[r.id][r.objs[i].tcid]
       IN MergeFrom([r EXCEPT !.objs[i].log_offset = Len(data),
                              !.objs[i].log_count = Len(logs),
                              !.objs[i].stack_count = Len(stacks)],
                    Tail(names), data \o logs \o stacks)

\* _merge_logs_for_run: the archive written and the cases with their offsets
_merge_logs_for_run(r) == MergeFrom(r, r.order, <<>>)

\* every *_log.mplog and *_stack.mplog of the run's cases directory is deleted
_cleanup_case_log_files(files, id) == [files EXCEPT ![id] = [t \in TcIds |-> <<>>]]

\* run.status = ...; _merge_logs_for_run; sidecar; call log_test_run_finished
RunFinalize(s, h, l, status) ==
  LET r1 == [h[l.o] EXCEPT !.status = status]
      m == _merge_logs_for_run(r1)
      r2 == [r1 EXCEPT !.objs = m.objs]
  IN /\ heap' = [h EXCEPT ![l.o] = r2]
     /\ merged' = [merged EXCEPT ![r2.id] = [written |-> TRUE, data |-> m.data]]
     /\ caseLog' = _cleanup_case_log_files(caseLog, r2.id)
     /\ caseStack' = _cleanup_case_log_files(caseStack, r2.id)
     /\ write_meta_msgpack(r2.id, to_dict(r2))
     /\ Goto(s, "main", "rf_db", [l EXCEPT !.todo = <<>>, !.it = <<>>, !.st = status])

\* the for loop over run.test_cases.items(), from the names still to visit up
\* to its next await; past the loop, the broadcasts or the finalisation
RunFinishedLoop(s, l, names, status) ==
  LET r == heap[l.o]
      rest == RunningIn(r, names)
  IN IF rest # <<>>
     THEN LET n == Head(rest)
              k == CHOOSE j \in 1..Len(names) : names[j] = n
          IN /\ heap' = [heap EXCEPT ![l.o].objs[r.tcs[n]].status = "aborted"]
             /\ Goto(s, "main", "rf_tc_db",
                     [l EXCEPT !.cur = n, !.it = SubSeq(names, k + 1, Len(names)),
                               !.todo = Append(l.todo, n)])
             /\ UNCHANGED <<sidecar, caseLog, caseStack, merged>>
     ELSE IF l.todo # <<>>
          THEN /\ Goto(s, "main", "rf_tc_bc",
                       [l EXCEPT !.it = <<>>, !.counts = _count_test_statuses(r)])
               /\ UNCHANGED <<heap, sidecar, caseLog, caseStack, merged>>
          ELSE RunFinalize(s, heap, l, status)

\* from the lookup to the first await
RunFinishedEnter(s, rid, status, ret) ==
  LET o == test_runs[rid] IN
  IF o = NoRun
  THEN /\ ClearRun(s)
       /\ Finish(s, ret)
       /\ UNCHANGED <<heap, sidecar, touched, caseLog, caseStack, merged>>
  ELSE /\ RunFinishedLoop(s, [NoLoc EXCEPT !.o = o, !.rid = rid, !.st = status,
                                          !.sz = Len(heap[o].order), !.ret = ret],
                          heap[o].order, status)
       /\ Touch(o, s)
       /\ UNCHANGED run

_handle_run_finished(s, rid, status) ==
  /\ CanRecv(s)
  /\ Received(s, "run_finished")
  /\ RunFinishedEnter(s, rid, status, "recv")
  /\ UNCHANGED <<test_runs, dbRun, dbCase, closed, ui, uiMode, bcFin, bcLate,
                 nextEntry, viewer,
                 uiErr,
                 errs,
                 rxLog,
                 batch,
                 boot,
                 cls,
                 grp,
                 wire>>

\* log_test_case_finished(.., 'aborted') inside the loop; a dict that changed
\* size meanwhile ends the handler through its catch-all
_handle_run_finished_tc_db(s) ==
  /\ At(s, "main", "rf_tc_db")
  /\ LET l == loc[<<s, "main">>]
         id == heap[l.o].id
     IN /\ dbCase' = IF dbCase[id][l.cur] # "absent"
                     THEN [dbCase EXCEPT ![id][l.cur] = "aborted"] ELSE dbCase
        /\ IF Len(heap[l.o].order) # l.sz
           THEN /\ ClearRun(s)
                /\ Finish(s, l.ret)
                /\ UNCHANGED <<heap, sidecar, caseLog, caseStack, merged>>
           ELSE /\ RunFinishedLoop(s, l, l.it, l.st)
                /\ UNCHANGED run
  /\ UNCHANGED <<test_runs, dbRun, closed, idle, gap, msgsLeft, ui, uiMode,
                 bcFin, bcLate, touched, lastRecv,
                 nextEntry, viewer,
                 uiErr,
                 errs,
                 rxLog,
                 batch,
                 boot,
                 cls,
                 grp,
                 wire>>

\* one test_case_finished broadcast per aborted case, then the finalisation
_handle_run_finished_tc_bc(s) ==
  /\ At(s, "main", "rf_tc_bc")
  /\ LET l == loc[<<s, "main">>]
     IN /\ broadcast_ui("test_case_finished", l.o)
        /\ IF Tail(l.todo) # <<>>
           THEN /\ Goto(s, "main", "rf_tc_bc", [l EXCEPT !.todo = Tail(@)])
                /\ UNCHANGED <<heap, sidecar, caseLog, caseStack, merged>>
           ELSE RunFinalize(s, heap, l, l.st)
  /\ UNCHANGED <<test_runs, dbRun, dbCase, run, closed, idle, gap, msgsLeft,
                 uiMode, touched, lastRecv,
                 nextEntry, viewer,
                 uiErr,
                 errs,
                 rxLog,
                 batch,
                 boot,
                 cls,
                 grp,
                 wire>>

\* log_test_run_finished(run.id, run.status): UPDATE test_runs SET status
log_test_run_finished(s) ==
  /\ At(s, "main", "rf_db")
  /\ LET l == loc[<<s, "main">>]
         id == heap[l.o].id
     IN /\ dbRun' = IF dbRun[id].exists
                    THEN [dbRun EXCEPT ![id].status = l.st] ELSE dbRun
        /\ Goto(s, "main", "rf_bc", l)
  /\ UNCHANGED <<heap, test_runs, sidecar, dbCase, run, closed, idle, gap,
                 msgsLeft, ui, uiMode, bcFin, bcLate, touched, lastRecv,
                 caseLog, merged, nextEntry, viewer,
                 uiErr,
                 errs,
                 caseStack,
                 rxLog,
                 batch,
                 boot,
                 cls,
                 grp,
                 wire>>

\* broadcast run_finished, `del self.test_runs[run_id]`, `run = None`
_handle_run_finished_bc(s) ==
  /\ At(s, "main", "rf_bc")
  /\ LET l == loc[<<s, "main">>]
     IN /\ broadcast_ui("run_finished", l.o)
        /\ test_runs' = [test_runs EXCEPT ![l.rid] = NoRun]
        /\ ClearRun(s)
        /\ Finish(s, l.ret)
  /\ UNCHANGED <<heap, sidecar, dbRun, dbCase, closed, idle, gap, msgsLeft,
                 uiMode, touched, lastRecv,
                 caseLog, merged, nextEntry, viewer,
                 uiErr,
                 errs,
                 caseStack,
                 rxLog,
                 batch,
                 boot,
                 cls,
                 grp,
                 wire>>

\* ------------------------------------------- handle_nunit_ws: end of session
\* the runner's close frame arrives: the socket is closed while the receive
\* is still suspended in it
ChannelClose(s) ==
  /\ At(s, "main", "recv")
  /\ ~closed[s]
  /\ closed' = [closed EXCEPT ![s] = TRUE]
  /\ UNCHANGED <<heap, test_runs, sidecar, dbRun, dbCase, run, tpc, loc, idle,
                 gap, msgsLeft, ui, uiMode, bcFin, bcLate, touched, lastRecv,
                 caseLog, merged, nextEntry, viewer,
                 uiErr,
                 errs,
                 caseStack,
                 rxLog,
                 batch,
                 boot,
                 cls,
                 grp,
                 wire>>

\* an ERROR message reaches the loop body: abort if running, break
handle_nunit_ws_error(s) ==
  /\ CanRecv(s)
  /\ Received(s, "ERROR")
  /\ closed' = [closed EXCEPT ![s] = TRUE]
  /\ IF IsRunning(s)
     THEN mark_run_aborted(s, "main", "WebSocket error before run_finished was sent", "finally")
     ELSE /\ Goto(s, "main", "finally", NoLoc)
          /\ UNCHANGED <<heap, sidecar, touched>>
  /\ UNCHANGED <<test_runs, dbRun, dbCase, run, ui, uiMode, bcFin, bcLate,
                 caseLog, merged, nextEntry, viewer,
                 uiErr,
                 errs,
                 caseStack,
                 rxLog,
                 batch,
                 boot,
                 cls,
                 grp,
                 wire>>

\* the finally block; the loop also gets here when the iteration ends on a
\* closed socket
handle_nunit_ws_finally(s) ==
  /\ \/ At(s, "main", "finally")
     \/ At(s, "main", "recv") /\ closed[s] /\ batch.events[s] = <<>>
  /\ IF IsRunning(s)
     THEN IF RunningIn(heap[run[s]], heap[run[s]].order) # <<>>
          THEN /\ mark_run_aborted(s, "main",
                    "WebSocket closed while run was still running", "cancel")
               /\ UNCHANGED <<run, caseLog, caseStack, merged>>
          ELSE RunFinishedEnter(s, heap[run[s]].id, "finished", "cancel")
     ELSE /\ Finish(s, "cancel")
          /\ UNCHANGED <<heap, sidecar, run, touched, caseLog, caseStack, merged>>
  /\ UNCHANGED <<test_runs, dbRun, dbCase, closed, idle, gap, msgsLeft, ui,
                 uiMode, bcFin, bcLate, lastRecv,
                 nextEntry, viewer,
                 uiErr,
                 errs,
                 rxLog,
                 batch,
                 boot,
                 cls,
                 grp,
                 wire>>

\* -------------------------------------------------------- handle_log_stream
\* `queue = asyncio.Queue(); test_case.subscribers.append(queue)`
Subscribe(v, o, i) == heap' = [heap EXCEPT ![o].objs[i].subscribers = Append(@, v)]

\* `finally: test_case.subscribers.remove(queue)`
Unsubscribe(v, o, i) ==
  heap' = [heap EXCEPT ![o].objs[i].subscribers = SelectSeq(@, LAMBDA x : x # v)]

\* the key of an initial item: `item.get("timestamp", "")`, 0 standing for ""
sort_key(item) == IF "timestamp" \in DOMAIN item THEN item.timestamp ELSE 0

\* list.sort(key=...) is stable: x goes behind the items whose key is not
\* greater than its own
RECURSIVE SortInsert(_, _)
SortInsert(sorted, x) ==
  IF sorted = <<>> THEN <<x>>
  ELSE IF sort_key(Head(sorted)) <= sort_key(x)
       THEN <<Head(sorted)>> \o SortInsert(Tail(sorted), x)
       ELSE <<x>> \o sorted

RECURSIVE SortItems(_)
SortItems(items) ==
  IF items = <<>> THEN <<>>
  ELSE SortInsert(SortItems(SubSeq(items, 1, Len(items) - 1)), items[Len(items)])

\* a replay built from a list the queue's entries were already added to: the
\* logs are taken twice
initial_items_twice(c) ==
  SortItems(c.logs \o c.logs \o [k \in 1..Len(c.stack_traces) |->
                                   exception_payload(c.stack_traces[k])])

\* initial_items: test_case.logs, then a payload for each of
\* test_case.stack_traces, sorted by key
initial_items(c) ==
  SortItems(c.logs \o [k \in 1..Len(c.stack_traces) |->
                         exception_payload(c.stack_traces[k])])

\* from the lookups to the first replay send; initial_items is built and
\* sorted before anything is sent
handle_log_stream(v, rid, tcid) ==
  /\ viewer[v].pc = "idle"
  /\ LET o == test_runs[rid] IN
     IF o = NoRun \/ heap[o].byId[tcid] = 0
     THEN /\ viewer' = [viewer EXCEPT ![v].pc = "closed"]
          /\ UNCHANGED heap
     ELSE LET i == heap[o].byId[tcid]
              c == heap[o].objs[i]
              w == [viewer[v] EXCEPT !.o = o, !.i = i, !.live = (c.status = "running")]
          IN IF initial_items(c) = <<>>
             THEN /\ viewer' = [viewer EXCEPT ![v] =
                               [w EXCEPT !.pc = "tail",
                                         !.sub = Len(caseLog[heap[o].id][c.tcid])]]
                  /\ Subscribe(v, o, i)
             ELSE /\ viewer' = [viewer EXCEPT ![v] =
                               [w EXCEPT !.pc = "replay",
                                         !.items = initial_items(c),
                                         !.nrep = Len(initial_items(c))]]
                  /\ UNCHANGED heap
  /\ UNCHANGED <<test_runs, sidecar, dbRun, dbCase, run, tpc, loc, closed, idle,
                 gap, msgsLeft, ui, uiMode, bcFin, bcLate, touched, lastRecv,
                 caseLog, merged, nextEntry,
                 uiErr,
                 errs,
                 caseStack,
                 rxLog,
                 batch,
                 boot,
                 cls,
                 grp,
                 wire>>

\* `await send_msgpack(ws, item)` of the replay returned; past the last item
\* the queue is created and subscribed. On a broken connection the send
\* raises, and so does the send of the error frame in the except block: the
\* handler is left before the queue exists
handle_log_stream_replay(v) ==
  /\ viewer[v].pc = "replay"
  /\ LET w == viewer[v]
         w2 == [w EXCEPT !.got = Append(@, Head(w.items)), !.items = Tail(@)]
     IN IF w.ws = "broken"
        THEN /\ viewer' = [viewer EXCEPT ![v].pc = "exited"]
             /\ UNCHANGED heap
        ELSE IF w2.items = <<>>
        THEN /\ viewer' = [viewer EXCEPT ![v] =
                          [w2 EXCEPT !.pc = "tail",
                                     !.sub = Len(caseLog[heap[w.o].id][heap[w.o].objs[w.i].tcid])]]
             /\ Subscribe(v, w.o, w.i)
        ELSE /\ viewer' = [viewer EXCEPT ![v] = w2]
             /\ UNCHANGED heap
  /\ UNCHANGED <<test_runs, sidecar, dbRun, dbCase, run, tpc, loc, closed, idle,
                 gap, msgsLeft, ui, uiMode, bcFin, bcLate, touched, lastRecv,
                 caseLog, merged, nextEntry,
                 uiErr,
                 errs,
                 caseStack,
                 rxLog,
                 batch,
                 boot,
                 cls,
                 grp,
                 wire>>

\* `entry = await queue.get(); await send_msgpack(ws, entry)`; a send that
\* raises ends the loop (`except Exception: pass`) and the finally path runs
handle_log_stream_tail(v) ==
  /\ viewer[v].pc = "tail"
  /\ viewer[v].q # <<>>
  /\ IF viewer[v].ws = "broken"
     THEN /\ viewer' = [viewer EXCEPT ![v].pc = "exited", ![v].q = Tail(@)]
          /\ Unsubscribe(v, viewer[v].o, viewer[v].i)
     ELSE /\ viewer' = [viewer EXCEPT ![v].got = Append(@, Head(viewer[v].q)),
                                      ![v].q = Tail(@)]
          /\ UNCHANGED heap
  /\ UNCHANGED <<test_runs, sidecar, dbRun, dbCase, run, tpc, loc, closed,
                 idle, gap, msgsLeft, ui, uiMode, bcFin, bcLate, touched,
                 lastRecv, caseLog, merged, nextEntry,
                 uiErr,
                 errs,
                 caseStack,
                 rxLog,
                 batch,
                 boot,
                 cls,
                 grp,
                 wire>>

\* the viewer's connection breaks or is closed by the client; the handler,
\* which never reads from ws, learns of it at its next send
ViewerGone(v) ==
  /\ viewer[v].pc \in {"replay", "tail"}
  /\ viewer[v].ws = "open"
  /\ viewer' = [viewer EXCEPT ![v].ws = "broken"]
  /\ UNCHANGED <<heap, test_runs, sidecar, dbRun, dbCase, run, tpc, loc, closed,
                 idle, gap, msgsLeft, ui, uiMode, bcFin, bcLate, touched,
                 lastRecv, caseLog, merged, nextEntry,
                 uiErr,
                 errs,
                 caseStack,
                 rxLog,
                 batch,
                 boot,
                 cls,
                 grp,
                 wire>>

\* the handler's task is cancelled (server shutdown, or the web server
\* cancelling the handler of a lost connection): CancelledError is raised at
\* the await the handler is suspended in, passes `except Exception`, and the
\* finally path runs when the handler was in the tail loop
handle_log_stream_cancelled(v) ==
  /\ viewer[v].pc \in {"replay", "tail"}
  /\ viewer' = [viewer EXCEPT ![v].pc = "exited"]
  /\ IF viewer[v].pc = "tail"
     THEN Unsubscribe(v, viewer[v].o, viewer[v].i)
     ELSE UNCHANGED heap
  /\ UNCHANGED <<test_runs, sidecar, dbRun, dbCase, run, tpc, loc, closed,
                 idle, gap, msgsLeft, ui, uiMode, bcFin, bcLate, touched,
                 lastRecv, caseLog, merged, nextEntry,
                 uiErr,
                 errs,
                 caseStack,
                 rxLog,
                 batch,
                 boot,
                 cls,
                 grp,
                 wire>>

\* ------------------------------------------------------------ handle_ui_ws
\* `self.ui_clients.add(ws)`
handle_ui_ws(c) ==
  /\ uiMode[c] = "gone"
  /\ ui' = ui \cup {c}
  /\ uiMode' = [uiMode EXCEPT ![c] = "ok"]
  /\ UNCHANGED <<heap, test_runs, sidecar, dbRun, dbCase, run, tpc, loc, closed,
                 idle, gap, msgsLeft, bcFin, bcLate, touched, lastRecv,
                 caseLog, merged, nextEntry, viewer,
                 uiErr,
                 errs,
                 caseStack,
                 rxLog,
                 batch,
                 boot,
                 cls,
                 grp,
                 wire>>

\* the client's iteration ended: `finally: self.ui_clients.remove(ws)`;
\* set.remove raises KeyError when the element is not in the set
handle_ui_ws_finally(c) ==
  /\ uiMode[c] \in {"ok", "fail"}
  /\ ui' = ui \ {c}
  /\ uiErr' = IF c \in ui THEN uiErr ELSE uiErr \cup {c}
  /\ uiMode' = [uiMode EXCEPT ![c] = "gone"]
  /\ UNCHANGED <<heap, test_runs, sidecar, dbRun, dbCase, run, tpc, loc, closed,
                 idle, gap, msgsLeft, bcFin, bcLate, touched, lastRecv,
                 caseLog, merged, nextEntry, viewer,
                 errs,
                 caseStack,
                 rxLog,
                 batch,
                 boot,
                 cls,
                 grp,
                 wire>>

\* the client's connection breaks: ws.send_bytes raises from now on
UiBreak(c) ==
  /\ uiMode[c] \in {"ok", "stall"}
  /\ uiMode' = [uiMode EXCEPT ![c] = "fail"]
  /\ UNCHANGED <<heap, test_runs, sidecar, dbRun, dbCase, run, tpc, loc, closed,
                 idle, gap, msgsLeft, ui, bcFin, bcLate, touched, lastRecv,
                 caseLog, merged, nextEntry, viewer,
                 uiErr,
                 errs,
                 caseStack,
                 rxLog,
                 batch,
                 boot,
                 cls,
                 grp,
                 wire>>

\* the client stops reading and its buffers are full: ws.send_bytes does not
\* return (WebSocketResponse() is created without heartbeat or timeout)
UiStall(c) ==
  /\ uiMode[c] = "ok"
  /\ uiMode' = [uiMode EXCEPT ![c] = "stall"]
  /\ UNCHANGED <<heap, test_runs, sidecar, dbRun, dbCase, run, tpc, loc, closed,
                 idle, gap, msgsLeft, ui, bcFin, bcLate, touched, lastRecv,
                 caseLog, merged, nextEntry, viewer,
                 uiErr,
                 errs,
                 caseStack,
                 rxLog,
                 batch,
                 boot,
                 cls,
                 grp,
                 wire>>

\* ------------------------------------------------------------------- Next
\* the handlers of one runner connection; its test_case_started frames take
\* their tc_full_name from names and their tc_id from ids
CaseEvents(s, names, ids) ==
  \/ \E rid \in RunIds, n \in names, t \in ids, st \in CaseStartInputs :
        _handle_test_case_started(s, rid, n, t, st)
  \/ _handle_test_case_started_db(s)
  \/ _handle_test_case_started_bc(s)
  \/ \E rid \in RunIds, t \in ids, st \in CaseFinishInputs :
        _handle_test_case_finished(s, rid, t, st)
  \/ _handle_test_case_finished_bc1(s)
  \/ log_test_case_finished(s)
  \/ _handle_test_case_finished_bc2(s)
  \/ \E rid \in RunIds, t \in ids, has_ts \in BatchShapes :
        _handle_log_batch(s, rid, t, has_ts)
  \/ add_log_entries(s)
  \/ \E rid \in RunIds, t \in ids : _handle_exception(s, rid, t)
  \/ add_stack_trace(s)

IngestOf(s, names, ids) ==
  \/ heartbeat(s)
  \/ handle_nunit_ws_parse_error(s)
  \/ \E rid \in RunIds : _handle_run_started(s, rid)
  \/ _handle_run_started_get(s)
  \/ _handle_run_started_create(s)
  \/ insert_test_run(s)
  \/ _handle_run_started_bc(s)
  \/ CaseEvents(s, names, ids)
  \/ _handle_metrics(s)
  \/ \E rid \in RunIds, st \in RunFinishInputs : _handle_run_finished(s, rid, st)
  \/ _handle_run_finished_tc_db(s)
  \/ _handle_run_finished_tc_bc(s)
  \/ log_test_run_finished(s)
  \/ _handle_run_finished_bc(s)
  \/ ChannelClose(s)
  \/ handle_nunit_ws_error(s)
  \/ handle_nunit_ws_finally(s)

Ingest(s) == IngestOf(s, TcNames, TcIds)

\* a runner whose frames name one test case only
IngestOne(s) == IngestOf(s, {"t1"}, {"a"})

Abort(s) ==
  \E k \in TaskKinds :
    \/ mark_run_aborted_tc_db(s, k)
    \/ mark_run_aborted_tc_bc(s, k)
    \/ mark_run_aborted_db(s, k)
    \/ mark_run_aborted_bc(s, k)

Watchdog(s) ==
  \/ monitor_connection(s)
  \/ monitor_ping_failed(s)
  \/ monitor_ping_ok(s)

\* one runner connection with its watchdog, in real time
Next ==
  \/ Tick({1})
  \/ Ingest(1)
  \/ handle_nunit_ws_parse_error_interned(1)
  \/ Abort(1)
  \/ Watchdog(1)

Spec == Init /\ [][Next]_vars

\* one runner connection and the hourly sweep
SpecSweep == InitSweep /\ [][Ingest(1) \/ Abort(1) \/ cleanup_old_runs]_vars

\* two runner connections side by side, within the first watchdog period
SpecTwo == InitTwo /\ [][\E s \in Sessions : IngestOne(s) \/ Abort(s)]_vars

\* a runner connection whose run r1 has the running test case t1: the state
\* after its run_started and test_case_started
RunWithCase ==
  [TestRunData("r1", 1, 0) EXCEPT !.order = <<"t1">>, !.tcs["t1"] = 1, !.byId["a"] = 1,
                               !.objs = <<TestCaseData("t1", "a", "-", <<>>)>>]

InitView ==
  /\ heap = <<RunWithCase>>
  /\ test_runs = [id \in RunIds |-> IF id = "r1" THEN 1 ELSE NoRun]
  /\ sidecar = [id \in RunIds |-> IF id = "r1" THEN to_dict(RunWithCase) ELSE NoMeta]
  /\ dbRun = [id \in RunIds |-> IF id = "r1"
                THEN [exists |-> TRUE, status |-> "running", gen |-> 1, name |-> 0]
                ELSE NoRow]
  /\ dbCase = [id \in RunIds |-> [n \in TcNames |->
                IF id = "r1" /\ n = "t1" THEN "running" ELSE "absent"]]
  /\ run = [s \in Sessions |-> IF s = 1 THEN 1 ELSE NoRun]
  /\ tpc = [t \in Tasks |-> IF t[2] = "main" THEN "recv" ELSE "sleep"]
  /\ loc = [t \in Tasks |-> NoLoc]
  /\ closed = [s \in Sessions |-> FALSE]
  /\ idle = [s \in Sessions |-> 0]
  /\ gap = [s \in Sessions |-> 0]
  /\ msgsLeft = [s \in Sessions |-> MaxMsgs]
  /\ ui = UIClients
  /\ uiMode = [c \in UIClients |-> "ok"]
  /\ bcFin = [o \in Handles |-> 0]
  /\ bcLate = [o \in Handles |-> FALSE]
  /\ touched = [o \in Handles |-> IF o = 1 THEN {1} ELSE {}]
  /\ lastRecv = [s \in Sessions |-> IF s = 1 THEN "frame" ELSE "-"]
  /\ caseLog = [id \in RunIds |-> [t \in TcIds |-> <<>>]]
  /\ merged = [id \in RunIds |-> NoArchive]
  /\ nextEntry = 1
  /\ viewer = [v \in Viewers |-> NoViewer]
  /\ cls = NoCls
  /\ boot = NoBoot
  /\ grp = <<>>
  /\ wire = <<>>
  /\ batch = NoBatch
  /\ rxLog = [id \in RunIds |-> [t \in TcIds |-> <<>>]]
  /\ caseStack = [id \in RunIds |-> [t \in TcIds |-> <<>>]]
  /\ errs = [s \in Sessions |-> 0]
  /\ uiErr = {}

View(v) ==
  \/ \E rid \in RunIds, t \in TcIds : handle_log_stream(v, rid, t)
  \/ handle_log_stream_replay(v)
  \/ handle_log_stream_tail(v)
  \/ ViewerGone(v)
  \/ handle_log_stream_cancelled(v)

\* `await write_mplog_entries_async(...)` raises (the disk is full, the file
\* cannot be opened). In add_log_entries the exception leaves the method
\* before logs.extend and the subscribers' puts and is logged by the
\* catch-all of _handle_log_batch. In add_stack_trace it is logged, then
\* stack_traces is re-read from the stack file, or gets the entry appended
\* when the read raises too; the payload is put on the subscribers' queues
\* and _handle_exception rewrites the sidecar
write_mplog_entries_async_raises(s) ==
  LET l == loc[<<s, "main">>]
  IN /\ \/ /\ At(s, "main", "lb_write")
           /\ UNCHANGED <<heap, viewer, sidecar>>
        \/ /\ At(s, "main", "ex_write")
           /\ \E reread \in BOOLEAN :
                LET h == [heap EXCEPT ![l.o].objs[l.sz].stack_traces =
                            IF reread THEN caseStack[l.rid][l.cur]
                            ELSE @ \o l.it]
                IN /\ heap' = h
                   /\ write_meta_msgpack(l.rid, to_dict(h[l.o]))
           /\ viewer' = Notify(viewer, heap[l.o].objs[l.sz].subscribers,
                               <<exception_payload(l.it[1])>>)
     /\ Touch(l.o, s)
     /\ Goto(s, "main", "recv", NoLoc)
     /\ UNCHANGED <<test_runs, dbRun, dbCase, run, closed, idle, gap,
                    msgsLeft, ui, uiMode, bcFin, bcLate, lastRecv, caseLog,
                    merged, nextEntry, uiErr, errs, caseStack, rxLog, batch,
                 boot,
                 cls,
                 grp,
                 wire>>

\* a runner connection and a log viewer, with failing writes
SpecDisk ==
  InitView /\ [][\/ Ingest(1) \/ Abort(1)
                  \/ (\E v \in Viewers : View(v))
                  \/ write_mplog_entries_async_raises(1)]_vars

\* a runner connection and a log viewer
SpecView == InitView /\ [][Ingest(1) \/ Abort(1) \/ \E v \in Viewers : View(v)]_vars

\* the steps by which the handler of a frame, the finally block of a session
\* and mark_run_aborted go on from the await they are suspended in
Resume(s) ==
  \/ _handle_run_started_get(s)
  \/ _handle_run_started_create(s)
  \/ insert_test_run(s)
  \/ _handle_run_started_bc(s)
  \/ _handle_test_case_started_db(s)
  \/ _handle_test_case_started_bc(s)
  \/ _handle_test_case_finished_bc1(s)
  \/ log_test_case_finished(s)
  \/ _handle_test_case_finished_bc2(s)
  \/ add_log_entries(s)
  \/ add_stack_trace(s)
  \/ _handle_run_finished_tc_db(s)
  \/ _handle_run_finished_tc_bc(s)
  \/ log_test_run_finished(s)
  \/ _handle_run_finished_bc(s)
  \/ handle_nunit_ws_finally(s)
  \/ Abort(s)

\* the handlers are tasks of the event loop: each runs whenever the await it
\* is suspended in can return. Frames from the runner, the end of a
\* connection and the cancellation of a task come from outside
SpecViewLive ==
  /\ SpecView
  /\ WF_vars(Resume(1))
  /\ \A v \in Viewers : /\ WF_vars(handle_log_stream_replay(v))
                        /\ WF_vars(handle_log_stream_tail(v))

\* the events a script is made of: they name one test case and carry no
\* run_id of their own
ScriptEvents ==
  {Event("test_case_started", "-", "t1", "a", "-", <<>>),
   Event("exception", "-", "-", "a", "-", <<>>)}
    \cup {Event("test_case_finished", "-", "-", "a", st, <<>>) : st \in CaseFinishInputs}
    \cup {Event("log_batch", "-", "-", "a", "-", has_ts) : has_ts \in BatchShapes}
    \cup {NotAMap(Event("log_batch", "-", "-", "a", "-", <<TRUE>>)),
          UndefinedRef(Event("log_batch", "-", "-", "a", "-", <<TRUE>>))}

Scripts == UNION {[1..k -> ScriptEvents] : k \in 1..MaxScript}

\* two running runs without test cases, r1 of session 1 and r2 of session 2,
\* and a script: session 1 will send it as one batch frame for r1, session 2
\* event by event for r2. Session 1 may have lost its `run` to a rejected
\* run_started
InitBatch ==
  \E sc \in Scripts, attached \in BOOLEAN :
    /\ heap = <<TestRunData("r1", Batched, 0), TestRunData("r2", Separate, 1)>>
    /\ test_runs = [id \in RunIds |-> IF id = "r1" THEN 1 ELSE 2]
    /\ sidecar = [id \in RunIds |-> to_dict(TestRunData(id, 0, 0))]
    /\ dbRun = [id \in RunIds |->
                 [exists |-> TRUE, status |-> "running",
                  gen |-> IF id = "r1" THEN 1 ELSE 2,
                  name |-> IF id = "r1" THEN 0 ELSE 1]]
    /\ dbCase = [id \in RunIds |-> [n \in TcNames |-> "absent"]]
    /\ run = [s \in Sessions |-> IF s = Separate THEN 2
                                  ELSE IF attached THEN 1 ELSE NoRun]
    /\ tpc = [t \in Tasks |-> IF t[2] = "main" THEN "recv" ELSE "sleep"]
    /\ loc = [t \in Tasks |-> NoLoc]
    /\ closed = [s \in Sessions |-> FALSE]
    /\ idle = [s \in Sessions |-> 0]
    /\ gap = [s \in Sessions |-> 0]
    /\ msgsLeft = [s \in Sessions |-> IF s = Separate THEN Len(sc) ELSE 1]
    /\ ui = UIClients
    /\ uiMode = [c \in UIClients |-> "ok"]
    /\ bcFin = [o \in Handles |-> 0]
    /\ bcLate = [o \in Handles |-> FALSE]
    /\ touched = [o \in Handles |-> {o}]
    /\ lastRecv = [s \in Sessions |-> "frame"]
    /\ caseLog = [id \in RunIds |-> [t \in TcIds |-> <<>>]]
    /\ merged = [id \in RunIds |-> NoArchive]
    /\ nextEntry = 1
    /\ viewer = [v \in Viewers |-> NoViewer]
    /\ boot = NoBoot
    /\ cls = NoCls
    /\ grp = <<>>
    /\ wire = <<>>
    /\ rxLog = [id \in RunIds |-> [t \in TcIds |-> <<>>]]
    /\ caseStack = [id \in RunIds |-> [t \in TcIds |-> <<>>]]
    /\ errs = [s \in Sessions |-> 0]
    /\ uiErr = {}
    /\ batch = [NoBatch EXCEPT !.script = sc]

SpecBatch ==
  InitBatch /\ [][\/ _handle_batch(Batched, "r1", batch.script)
                   \/ (\E s \in Sessions : handle_nunit_ws_parse_error(s))
                   \/ (\E s \in Sessions : CaseEvents(s, {"t1"}, {"a"}))]_vars

UIClient(c) ==
  \/ handle_ui_ws(c)
  \/ handle_ui_ws_finally(c)
  \/ UiBreak(c)
  \/ UiStall(c)

\* a runner connection with its watchdog, and UI clients that come and go
SpecUI ==
  Init /\ [][\/ Tick({1})
              \/ IngestOne(1)
              \/ Abort(1)
              \/ Watchdog(1)
              \/ \E c \in UIClients : UIClient(c)]_vars

\* ================================================================ claims
Live == 1..Len(heap)

CaseObjsOf(r) == {r.tcs[n] : n \in TcNames} \cup {r.byId[t] : t \in TcIds}

HasRunningCase(r) == \E i \in CaseObjsOf(r) \ {0} : r.objs[i].status = "running"

\* C1: for every run at most one run_finished is broadcast and no broadcast
\* for the run (test_case_*, metrics, run_finished) follows it
C1_OneTerminalBroadcast ==
  \A o \in Live : bcFin[o] <= 1 /\ ~bcLate[o]

\* C2: once a run's status has left running it never changes again, in
\* memory, in the sidecar and in the index
C2_StatusOneWay ==
  [][/\ \A o \in Live : heap[o].status # "running" => heap'[o].status = heap[o].status
     /\ \A id \in RunIds :
          /\ (sidecar[id].exists /\ sidecar[id].status # "running")
               => sidecar'[id].status = sidecar[id].status
          /\ (dbRun[id].exists /\ dbRun[id].status # "running")
               => dbRun'[id].status = dbRun[id].status]_vars

\* C3: a run is changed only by the handlers of the session that created it
C3_OnlyOwnerMutates ==
  \A o \in Live : touched[o] \subseteq {heap[o].owner}

\* C4: in the step that takes a run out of test_runs none of its test cases
\* is running, in run-state, in the sidecar or in the index
C4_NoRunningCaseAtRemoval ==
  [][\A id \in RunIds :
       (test_runs[id] # NoRun /\ test_runs'[id] = NoRun) =>
          /\ ~HasRunningCase(heap'[test_runs[id]])
          /\ \A n \in TcNames : sidecar'[id].cases[n] # "running"
          /\ \A n \in TcNames : dbCase'[id][n] # "running"]_vars

\* C7: a running run whose session has had no inbound frame for more than 30
\* seconds is aborted by the watchdog at the tick that follows
C7_IdleRunAborted ==
  \A s \in Sessions :
    (IsRunning(s) /\ tpc[<<s, "main">>] = "recv" /\ gap[s] > TimeoutSeconds)
      => tpc[<<s, "mon">>] \in {"due", "ping"}

\* C8: a run is aborted with reason Connection timeout only when its session
\* has received no frame, heartbeats included, for more than 30 seconds
C8_NoTimeoutWhileHeartbeats ==
  [][\A o \in Live :
       (heap[o].reason # "Connection timeout" /\ heap'[o].reason = "Connection timeout")
         => gap[heap[o].owner] > TimeoutSeconds]_vars

\* a heartbeat was the last frame, 30 seconds ago, and the watchdog has
\* checked the running run at that distance and gone back to sleep
C8_Witness ==
  /\ lastRecv[1] = "heartbeat"
  /\ IsRunning(1)
  /\ gap[1] = TimeoutSeconds
  /\ tpc[<<1, "mon">>] = "sleep"

\* C9: a watchdog tick that finds the run running and the channel closed, or
\* whose ping fails, aborts the run
C9_TickAbortsOnDeadChannel ==
  [][\A s \in Sessions :
       (/\ IsRunning(s)
        /\ \/ tpc[<<s, "mon">>] = "due" /\ closed[s] /\ tpc'[<<s, "mon">>] # "due"
           \/ tpc[<<s, "mon">>] = "ping" /\ tpc'[<<s, "mon">>] = "done"
                /\ tpc'[<<s, "main">>] # "done")
         => /\ heap'[run[s]].status = "aborted"
            /\ ~HasRunningCase(heap'[run[s]])]_vars

\* C10: a run_started never replaces an active run or an index row
C10_RunIdUnique ==
  [][\A id \in RunIds :
       /\ test_runs[id] # NoRun => test_runs'[id] \in {test_runs[id], NoRun}
       /\ dbRun[id].exists => dbRun'[id].gen = dbRun[id].gen]_vars

BroadcastPcs == {"rs_bc", "tcs_bc", "tcf_bc1", "tcf_bc2", "rf_tc_bc",
                 "rf_bc", "ab_tc_bc", "ab_bc"}

\* C5: a viewer that connected to a running test case and has drained its
\* queue has received exactly the entries of the case's slice of the merged
\* archive
C5_ViewerReceivesAll ==
  \A v \in Viewers :
    LET w == viewer[v] IN
    (w.pc = "tail" /\ w.live /\ w.q = <<>> /\ merged[heap[w.o].id].written)
      => LET c == heap[w.o].objs[w.i]
             sl == SubSeq(merged[heap[w.o].id].data, c.log_offset + 1,
                          c.log_offset + c.log_count)
             logs == SelectSeq(w.got, LAMBDA x : "ts" \in DOMAIN x)
         IN {logs[j] : j \in 1..Len(logs)} = {sl[j] : j \in 1..Len(sl)}

\* C6: an ingest handler is never suspended in a send to a UI client that does
\* not accept data
C6_HandlerNeverWaitsOnViewer ==
  \A s \in Sessions : tpc[<<s, "main">>] \in BroadcastPcs => ~SendBlocked

\* C11: no two runs of a group have the same run_name, in test_runs or in the
\* index, also when two sessions handle run_started at overlapping times
C11_RunNameUnique ==
  /\ \A a, b \in RunIds :
       a # b /\ test_runs[a] # NoRun /\ test_runs[b] # NoRun
         => heap[test_runs[a]].name # heap[test_runs[b]].name
  /\ \A a, b \in RunIds :
       a # b /\ dbRun[a].exists /\ dbRun[b].exists => dbRun[a].name # dbRun[b].name

\* C12: once a session is over (its receive loop and its monitor have ended),
\* no run that the session put into test_runs is still there
C12_RemovedAfterClose ==
  \A s \in Sessions :
    tpc[<<s, "main">>] = "done" /\ tpc[<<s, "mon">>] = "done"
      => \A id \in RunIds :
           test_runs[id] # NoRun => heap[test_runs[id]].owner # s

\* C20: no UI client's disconnect path raises, also when broadcast_ui has
\* removed the client after a failed send
C20_UiPathsNeverRaise == uiErr = {}

\* C15: a run_started whose run_id is in test_runs or in the index goes no
\* further than its check and is answered with err; the step that sends the
\* err response creates no run and no file, changes no sidecar and no index
\* row, is not a broadcast, and leaves the session open in its receive loop
C15_RejectedRunStarted ==
  [][\A s \in Sessions :
       LET pc  == tpc[<<s, "main">>]
           pc2 == tpc'[<<s, "main">>]
       IN /\ (pc = "recv" /\ pc2 = "rs_get")
               => test_runs[loc'[<<s, "main">>].rid] = NoRun
          /\ (pc = "rs_get" /\ pc2 = "rs_names")
               => ~dbRun[loc[<<s, "main">>].rid].exists
          /\ (pc = "rs_get" /\ pc2 = "recv") => errs'[s] = errs[s] + 1
          /\ errs'[s] # errs[s]
               => /\ UNCHANGED <<heap, test_runs, sidecar, dbRun, dbCase,
                                caseLog, caseStack, merged, ui, bcFin,
                                bcLate, closed>>
                  /\ pc \notin BroadcastPcs
                  /\ pc2 = "recv"]_vars

\* an err response was sent on the session, and a later run_started with an
\* unused id made the second run of the model the session's running run
C15_Witness ==
  /\ errs[1] > 0
  /\ Len(heap) = 2
  /\ run[1] = 2
  /\ heap[2].status = "running"
  /\ test_runs[heap[2].id] = 2

\* C16: an aborted run whose session is over got exactly one run_finished
\* broadcast, whatever abort triggers followed the first one
C16_AbortedRunOneBroadcast ==
  \A o \in Live :
    LET s == heap[o].owner
    IN (/\ heap[o].status = "aborted"
        /\ tpc[<<s, "main">>] = "done"
        /\ tpc[<<s, "mon">>] = "done")
         => bcFin[o] = 1

\* C17: when the channel of a session is closed and its run stops being
\* running, the run becomes aborted if one of its cases is running, and
\* finished if none is
C17_CloseAbortsOrPromotes ==
  [][\A s \in Sessions :
       (/\ closed[s]
        /\ IsRunning(s)
        /\ heap'[run[s]].status # "running")
         => heap'[run[s]].status =
              IF HasRunningCase(heap[run[s]]) THEN "aborted" ELSE "finished"]_vars

\* C14: a run that is terminal and no longer in test_runs has no per-case
\* log file left
C14_NoCaseFilesAfterRemoval ==
  \A o \in Live :
    (/\ heap[o].status \in {"finished", "aborted"}
     /\ test_runs[heap[o].id] = NoRun)
      => \A t \in TcIds : caseLog[heap[o].id][t] = <<>>

\* the time an item was produced at by the runner: ts of a log entry,
\* timestamp of an exception
ItemTime(x) == IF "ts" \in DOMAIN x THEN x.ts ELSE x.timestamp

\* C19: the items a viewer is sent on connect, log entries and exceptions
\* together, are in ascending order of their timestamps
C19_ReplayChronological ==
  \A v \in Viewers :
    viewer[v].pc = "replay"
      => \A j, k \in 1..Len(viewer[v].items) :
           j < k => ItemTime(viewer[v].items[j]) <= ItemTime(viewer[v].items[k])

\* the entries of the records received for run id under tc_id t
Received_entries(id, t) ==
  [k \in 1..Len(rxLog[id][t]) |-> rxLog[id][t][k].entry]

\* the log entries of a sequence of records: those that carry ts
WithTs(rx) == SelectSeq(rx, LAMBDA x : "ts" \in DOMAIN x)

\* the entries a handler suspended in the write to the log file of run id and
\* tc_id t is about to append
BeingWritten(id, t) ==
  LET writing == {s \in Sessions : /\ tpc[<<s, "main">>] = "lb_write"
                                   /\ loc[<<s, "main">>].rid = id
                                   /\ loc[<<s, "main">>].cur = t}
  IN IF writing = {} THEN <<>>
     ELSE loc[<<CHOOSE s \in writing : TRUE, "main">>].it

\* the log entries a tailing viewer got from its queue or still has in it
FromQueue(w) == WithTs(SubSeq(w.got, w.nrep + 1, Len(w.got)) \o w.q)

\* C18: the log file of a test case holds, in the order received, the
\* received entries that carry ts (those a handler is still writing come
\* last), and the queue of every viewer tailing the test case has been given,
\* in that order, the ones stored since it subscribed; entries without ts
\* are left out and nothing else is
C18_LogsInOrderReceived ==
  /\ \A id \in RunIds, t \in TcIds :
       ~merged[id].written
         => caseLog[id][t] \o BeingWritten(id, t) = WithTs(Received_entries(id, t))
  /\ \A v \in Viewers :
       LET w == viewer[v]
           id == heap[w.o].id
           t == heap[w.o].objs[w.i].tcid
       IN w.pc = "tail" /\ ~merged[id].written
            => FromQueue(w) = SubSeq(caseLog[id][t], w.sub + 1, Len(caseLog[id][t]))

\* the exception records of a sequence of records: those that carry timestamp
WithTimestamp(rx) == SelectSeq(rx, LAMBDA x : "timestamp" \in DOMAIN x)

\* the records accepted for the test case n of run id, which the sidecar
\* records under tc_id t, in the order received
AcceptedFor(id, n, t) ==
  LET rx == SelectSeq(rxLog[id][t], LAMBDA x : x.name = n)
  IN [k \in 1..Len(rx) |-> rx[k].entry]

\* the slices of the archive the sidecar records for the cases named, one
\* after the other
RECURSIVE SlicesOf(_, _, _)
SlicesOf(meta, data, names) ==
  IF names = <<>> THEN <<>>
  ELSE LET sl == meta.slices[Head(names)]
       IN SubSeq(data, sl[1] + 1, sl[1] + sl[2] + sl[3])
            \o SlicesOf(meta, data, Tail(names))

\* C13: after run_finished, for every test case of the sidecar the log_count
\* records of the archive from log_offset on are the log entries accepted for
\* the case, in the order received, the next stack_count records are its
\* exception records, and the slices in test_cases order make up the archive
C13_SlicesAreTheAcceptedRecords ==
  \A id \in RunIds :
    merged[id].written /\ sidecar[id].exists /\ sidecar[id].status = "finished"
      => LET meta == sidecar[id]
             data == merged[id].data
         IN /\ \A k \in 1..Len(meta.order) :
                 LET n == meta.order[k]
                     sl == meta.slices[n]
                     rx == AcceptedFor(id, n, meta.tc_id[n])
                 IN /\ sl # <<>>
                    /\ SubSeq(data, sl[1] + 1, sl[1] + sl[2]) = WithTs(rx)
                    /\ SubSeq(data, sl[1] + sl[2] + 1, sl[1] + sl[2] + sl[3])
                         = WithTimestamp(rx)
            /\ SlicesOf(meta, data, meta.order) = data

\* the case objects whose subscribers list holds the queue of viewer v
SubscribedAt(v) ==
  {oi \in Handles \X (1..MaxCaseObjs) :
     /\ oi[1] <= Len(heap) /\ oi[2] <= Len(heap[oi[1]].objs)
     /\ \E k \in 1..Len(heap[oi[1]].objs[oi[2]].subscribers) :
          heap[oi[1]].objs[oi[2]].subscribers[k] = v}

\* the queue of a viewer is in a subscribers list only while the viewer is in
\* its tail loop, after the whole replay has been sent, and then only once
\* and in the list of the case it looked up
SubscribedOnlyWhileTailing ==
  \A v \in Viewers :
    LET w == viewer[v]
    IN /\ w.pc # "tail" => SubscribedAt(v) = {}
       /\ w.pc = "tail" =>
            /\ SubscribedAt(v) = {<<w.o, w.i>>}
            /\ Len(SelectSeq(heap[w.o].objs[w.i].subscribers,
                              LAMBDA x : x = v)) = 1
            /\ w.items = <<>>
            /\ Len(w.got) >= w.nrep

\* C21: the queue of a viewer is in a subscribers list only while the viewer
\* is tailing, after its replay has been sent, and once the viewer's
\* connection has ended, for whatever reason, the queue is taken out of every
\* subscribers list
C21_QueueRemovedWhenConnectionEnds ==
  /\ []SubscribedOnlyWhileTailing
  /\ \A v \in Viewers : (viewer[v].ws = "broken") ~> (SubscribedAt(v) = {})

\* what a run has come to: its TestRunData and TestCaseData objects, its
\* sidecar, its rows of the index, its per-case files and archive, and the
\* broadcasts about it in the order emitted. The numbers the runner gave the
\* records are replaced by their rank among the records of the run: two runs
\* that were sent the same records have the same ranks
Outcome(o) ==
  LET r == heap[o]
      id == r.id
      Numbers ==
        UNION {{rxLog[id][t][k].entry.n : k \in 1..Len(rxLog[id][t])} : t \in TcIds}
      Ranked(e) ==
        [f \in DOMAIN e |->
           IF f = "type" THEN e[f]
           ELSE Cardinality({m \in Numbers : m <= e[f]})]
      RankedSeq(seq) == [k \in 1..Len(seq) |-> Ranked(seq[k])]
  IN [status |-> r.status, reason |-> r.reason, order |-> r.order,
      tcs |-> r.tcs, byId |-> r.byId,
      objs |-> [i \in 1..Len(r.objs) |->
                 [r.objs[i] EXCEPT !.logs = RankedSeq(@),
                                   !.stack_traces = RankedSeq(@)]],
      active |-> test_runs[id] = o,
      sidecar |-> sidecar[id],
      row |-> [exists |-> dbRun[id].exists, status |-> dbRun[id].status],
      cases |-> dbCase[id],
      logs |-> [t \in TcIds |-> RankedSeq(caseLog[id][t])],
      stacks |-> [t \in TcIds |-> RankedSeq(caseStack[id][t])],
      archive |-> merged[id],
      broadcasts |-> batch.bc[o]]

\* the batch frame and the separate frames have all been handled
BothHandled ==
  /\ batch.script # <<>>
  /\ msgsLeft[Batched] = 0 /\ batch.events[Batched] = <<>>
  /\ batch.sent = Len(batch.script)
  /\ \A s \in Sessions : At(s, "main", "recv")

\* C22: when a batch frame with events e1..en has been handled for one run,
\* and e1..en have been handled as frames of their own, in that order, for
\* another run that started from the same state, the two runs have the same
\* run state, per-case files, sidecar, index rows and sequence of broadcasts
C22_BatchAsSeparateFrames ==
  BothHandled => Outcome(test_runs["r1"]) = Outcome(test_runs["r2"])

\* the step leaves the test cases of every run, the sidecars and the index as
\* they are, and the handler of session s is back in the receive loop without
\* having come to a broadcast
Rejected(s) ==
  /\ UNCHANGED <<heap, sidecar, dbRun, dbCase, ui, bcFin, bcLate>>
  /\ batch'.bc = batch.bc
  /\ tpc'[<<s, "main">>] = "recv"

\* C23 as stated: a test_case_finished whose status is not one of passed,
\* failed, skipped, aborted, error is rejected: the test case's status and
\* end_time stay unchanged, nothing is written to the sidecar or the index,
\* and no broadcast is emitted
C23_InvalidStatusRejected ==
  [][\A s \in Sessions, rid \in RunIds, t \in TcIds, st \in CaseFinishInputs :
       (/\ st \notin {"passed", "failed", "skipped", "aborted", "error"}
        /\ _handle_test_case_finished(s, rid, t, st))
         => Rejected(s)]_vars

\* C23 amended: a test_case_finished whose status, in lower case, is not one
\* of passed, failed, skipped, aborted, error is rejected in that way
C23_InvalidStatusRejectedAnyCase ==
  [][\A s \in Sessions, rid \in RunIds, t \in TcIds, st \in CaseFinishInputs :
       (/\ lower(st) \notin {"passed", "failed", "skipped", "aborted", "error"}
        /\ _handle_test_case_finished(s, rid, t, st))
         => Rejected(s)]_vars

\* test_case_finished with an unknown status code has been handled for a
\* running test case, as a frame of its own and as an event of a batch, and
\* the test case is still running
C23_Witness ==
  /\ BothHandled
  /\ batch.script = <<Event("test_case_started", "-", "t1", "a", "-", <<>>),
                      Event("test_case_finished", "-", "-", "a", "unknown_9", <<>>)>>
  /\ \A o \in {Batched, Separate} :
        /\ heap[o].byId["a"] # 0
        /\ heap[o].objs[heap[o].byId["a"]].status = "running"

\* C24: when the append of a log_batch's entries or of an exception record to
\* the per-case file fails, the session stays open and the entries are added
\* to the case's in-memory logs (or stack_traces) and put on every attached
\* subscriber queue
C24_FailedAppendStillReflected ==
  [][\A s \in Sessions :
       write_mplog_entries_async_raises(s) =>
         LET l == loc[<<s, "main">>]
             c == heap[l.o].objs[l.sz]
             c2 == heap'[l.o].objs[l.sz]
             put == IF tpc[<<s, "main">>] = "lb_write" THEN l.it
                    ELSE <<exception_payload(l.it[1])>>
         IN /\ ~closed'[s] /\ tpc'[<<s, "main">>] = "recv"
            /\ IF tpc[<<s, "main">>] = "lb_write"
               THEN c2.logs = c.logs \o l.it
               ELSE c2.stack_traces = c.stack_traces \o l.it
            /\ \A k \in 1..Len(c.subscribers) :
                 viewer'[c.subscribers[k]].q = viewer[c.subscribers[k]].q \o put]_vars

\* C25: a binary frame that cannot be decoded is dropped: it changes no run,
\* no file and no index row, emits no broadcast, and the session stays open
\* and goes on to the frames that follow it
C25_UndecodableFrameDropped ==
  [][\A s \in Sessions :
       (lastRecv'[s] = "undecodable" /\ msgsLeft'[s] < msgsLeft[s])
         => /\ UNCHANGED <<heap, test_runs, sidecar, caseLog, caseStack, merged,
                           dbRun, dbCase, ui, bcFin, bcLate>>
            /\ ~closed'[s]
            /\ tpc'[<<s, "main">>] = "recv"]_vars

\* C26: a frame whose log entry refers to an interned component or channel id
\* that no earlier [id, string] pair of the session has defined fails to
\* decode and is dropped without being persisted: sent after the
\* test_case_started of its test case, as a frame of its own or as an event
\* of a batch, it leaves the log file of the test case empty
C26_UndefinedIdNotPersisted ==
  (/\ BothHandled
   /\ batch.script = <<Event("test_case_started", "-", "t1", "a", "-", <<>>),
                       UndefinedRef(Event("log_batch", "-", "-", "a", "-", <<TRUE>>))>>)
    => /\ caseLog["r1"]["a"] = <<>>
       /\ caseLog["r2"]["a"] = <<>>

\* C27: _calculate_classification(current, history), with R = history (newest
\* first) without skipped/running/aborted entries and S = [current] + R
\* projected to pass (passed) / fail (failed or error), returns flaky if S has
\* more than 4 adjacent transitions; otherwise fixed if current is passed and
\* the 5 most recent entries of R are all failed/error; otherwise regression
\* if current is failed/error and the 5 most recent entries of R are all
\* passed; otherwise no label. It never changes the index or run state
C27_ClassificationAsSpecified ==
  [][cls'.label # cls.label =>
       LET R == SelectSeq(cls.history,
                          LAMBDA h : h \notin {"skipped", "running", "aborted"})
           all == <<cls.current>> \o R
           Project(s) == IF s = "passed" THEN "pass" ELSE "fail"
           passFail == SelectSeq(all, LAMBDA s : s \in {"passed", "failed", "error"})
           S == [k \in 1..Len(passFail) |-> Project(passFail[k])]
           adjacent == {i \in 1..(Len(S) - 1) : S[i] # S[i + 1]}
           recent5(ok) == Len(R) >= 5 /\ \A k \in 1..5 : R[k] \in ok
           label ==
             IF Cardinality(adjacent) > 4 THEN "flaky"
             ELSE IF cls.current = "passed" /\ recent5({"failed", "error"}) THEN "fixed"
             ELSE IF cls.current \in {"failed", "error"} /\ recent5({"passed"})
                  THEN "regression"
             ELSE "none"
       IN /\ cls'.label = label
          /\ UNCHANGED <<dbRun, dbCase, heap, test_runs, sidecar>>]_vars

\* a test case that passes after five failures and has more than four
\* transitions in all has been labelled flaky, not fixed
C27_Witness ==
  /\ cls.label = "flaky"
  /\ cls.current = "passed"
  /\ Len(cls.history) = MaxHistory
  /\ \A k \in 1..5 : cls.history[k] = "failed"

\* C28: cleanup_runs_sweep deletes a run's directory exactly when the run's
\* retention_days is set and the time elapsed since its start_time is greater
\* than retention_days days; a run whose age is at most retention_days days,
\* or whose retention_days is not set, is not deleted
C28_DeletedExactlyWhenExpired ==
  [][(boot.pc = "sweep" /\ boot'.pc # "sweep") =>
       \A id \in RunIds :
         sidecar[id] # NoMeta =>
           ((sidecar'[id] = NoMeta) <=>
              /\ boot.retention_days[id] # 0
              /\ \/ boot.age[id].days > boot.retention_days[id]
                 \/ /\ boot.age[id].days = boot.retention_days[id]
                    /\ boot.age[id].more)]_vars

\* C29: retention deletion removes only the run's directory: the rows of the
\* index are unchanged by the sweep, the row of a deleted run is still
\* returned by run-by-id, and the directories of the runs that are not
\* eligible are unchanged
C29_OnlyTheDirectoryIsDeleted ==
  [][(boot.pc = "sweep" /\ boot'.pc # "sweep") =>
       /\ UNCHANGED <<dbRun, dbCase>>
       /\ \A id \in RunIds :
            /\ get_test_run_by_id(id)' = get_test_run_by_id(id)
            /\ (\/ boot.retention_days[id] = 0
                \/ boot.age[id].days < boot.retention_days[id]
                \/ /\ boot.age[id].days = boot.retention_days[id]
                   /\ ~boot.age[id].more)
                 => /\ sidecar'[id] = sidecar[id]
                    /\ caseLog'[id] = caseLog[id]
                    /\ caseStack'[id] = caseStack[id]
                    /\ merged'[id] = merged[id]]_vars

\* the sweep has deleted the directory of one run, whose row is still in the
\* index with its test case, and has left the directory of a run that has
\* not reached its retention_days
C29_Witness ==
  /\ boot.pc = "abandoned"
  /\ dbRun["r1"].exists /\ sidecar["r1"] = NoMeta /\ dbCase["r1"]["t1"] = "passed"
  /\ dbRun["r2"].exists /\ sidecar["r2"] # NoMeta
  /\ boot.retention_days["r2"] # 0

\* C30: after cleanup_abandoned_running_runs no test case of a run whose
\* index status was running or aborted is left running, and every run that
\* was found running with at least one running test case has index status
\* aborted
C30_AbandonedRunsAborted ==
  [][(boot.pc = "abandoned" /\ boot'.pc = "serving") =>
       \A id \in RunIds :
         /\ (dbRun[id].exists /\ dbRun[id].status \in {"running", "aborted"})
              => \A n \in TcNames : dbCase'[id][n] # "running"
         /\ (/\ dbRun[id].exists /\ dbRun[id].status = "running"
             /\ \E n \in TcNames : dbCase[id][n] = "running")
              => dbRun'[id].status = "aborted"]_vars

\* C31: compute_group_hash is a function of the normalized group: two
\* payloads with the same stripped name and the same set of (key, value)
\* metadata pairs get the same hash of GROUP_HASH_LENGTH characters, whatever
\* the order of their metadata keys and their url fields, and the hash
\* recomputed from the stored group is the hash computed at run_started
C31_GroupHashIgnoresOrderAndUrl ==
  LET pairs(g) == {<<g.metadata[k].key, g.metadata[k].value>> : k \in 1..Len(g.metadata)}
  IN /\ (/\ grp.pc["x"] # "sent" /\ grp.pc["y"] # "sent"
         /\ grp.group["x"].name = grp.group["y"].name
         /\ pairs(grp.group["x"]) = pairs(grp.group["y"]))
          => /\ grp.group_hash["x"] = grp.group_hash["y"]
             /\ grp.group_hash["x"].chars = 16
     /\ \A p \in {"x", "y"} :
          grp.pc[p] = "recomputed" => grp.loaded[p] = grp.group_hash[p]

\* C32: string interning round-trips: the strings decoded, in order, are the
\* strings encoded; the first occurrence of a non-empty string is sent as
\* [id, string], every later occurrence as the bare id, and two non-empty
\* strings have the same id exactly when they are the same string
C32_InterningRoundTrips ==
  /\ \A k \in 1..Len(wire.decoded) : wire.decoded[k] = wire.input[k]
  /\ \A k \in 1..Len(wire.frames) :
       wire.input[k] # "" =>
         IF \A j \in 1..(k - 1) : wire.input[j] # wire.input[k]
         THEN wire.frames[k].kind = "pair" /\ wire.frames[k].str = wire.input[k]
         ELSE wire.frames[k].kind = "id"
  /\ \A j, k \in 1..Len(wire.frames) :
       (wire.input[j] # "" /\ wire.input[k] # "") =>
         (wire.frames[j].id = wire.frames[k].id <=> wire.input[j] = wire.input[k])

\* MaxStrings strings, two different ones each sent twice, all decoded
C32_Witness ==
  /\ wire.input = <<"uart", "can", "uart", "can">>
  /\ wire.decoded = wire.input
  /\ wire.frames[3].kind = "id" /\ wire.frames[4].kind = "id"

\* C33: for every active run, test_cases (by tc_full_name) and
\* test_cases_by_tc_id (by tc_id) hold exactly the same TestCaseData objects,
\* and no two names and no two tc_ids lead to the same object
C33_CaseMapsInLockstep ==
  \A id \in RunIds :
    test_runs[id] # NoRun =>
      LET r == heap[test_runs[id]]
      IN /\ {r.tcs[n] : n \in TcNames} \ {0} = {r.byId[t] : t \in TcIds} \ {0}
         /\ \A n1, n2 \in TcNames : (r.tcs[n1] # 0 /\ r.tcs[n1] = r.tcs[n2]) => n1 = n2
         /\ \A t1, t2 \in TcIds : (r.byId[t1] # 0 /\ r.byId[t1] = r.byId[t2]) => t1 = t2

\* C35: once a test_case_started has been handled (index row inserted,
\* sidecar rewritten), the new test case has status running in the run
\* object, in the sidecar and in the index, whatever status the message
\* carried
C35_StartedCaseIsRunningEverywhere ==
  [][\A s \in Sessions :
       (tpc[<<s, "main">>] = "tcs_db" /\ tpc'[<<s, "main">>] = "tcs_bc") =>
         LET l == loc[<<s, "main">>]
             r == heap'[l.o]
         IN /\ r.objs[r.tcs[l.cur]].status = "running"
            /\ sidecar'[l.rid].cases[l.cur] = "running"
            /\ dbCase'[l.rid][l.cur] = "running"]_vars

\* C34: the effects of a message are applied in the order run-state, disk,
\* index, broadcast: when a handler emits the broadcast of a
\* test_case_started, the sidecar and the index have the test case; when it
\* emits a broadcast of a test_case_finished, the sidecar and the index row
\* hold the status the message gave the test case in run-state
C34_BroadcastAfterWrites ==
  [][\A s \in Sessions :
       LET l == loc[<<s, "main">>]
           pc == tpc[<<s, "main">>]
       IN (/\ pc \in {"tcs_bc", "tcf_bc1", "tcf_bc2"}
           /\ tpc'[<<s, "main">>] # pc
           /\ bcFin[l.o] = 0 /\ heap[l.o].status = "running")
          => /\ sidecar[l.rid].exists
             /\ sidecar[l.rid].cases[l.cur] # "absent"
             /\ dbCase[l.rid][l.cur] # "absent"
             /\ pc # "tcs_bc" =>
                  /\ sidecar[l.rid].cases[l.cur] = heap[l.o].objs[l.sz].status
                  /\ dbCase[l.rid][l.cur] = heap[l.o].objs[l.sz].status]_vars

\* C36: the counts of a test_case_started, test_case_updated or
\* test_case_finished broadcast are, when the broadcast is made, the numbers
\* of the run's test cases that have exactly the status passed, failed,
\* skipped and aborted; running test cases are in none of them
C36_CountsAreCurrent ==
  [][\A s \in Sessions, k \in TaskKinds :
       (/\ tpc'[<<s, k>>] \in {"tcs_bc", "tcf_bc1", "tcf_bc2", "rf_tc_bc", "ab_tc_bc"}
        /\ <<tpc[<<s, k>>], loc[<<s, k>>]>> # <<tpc'[<<s, k>>], loc'[<<s, k>>]>>)
       => LET l == loc'[<<s, k>>]
              r == heap'[IF tpc'[<<s, k>>] = "ab_tc_bc" THEN l.bo ELSE l.o]
              number(status) ==
                Cardinality({n \in TcNames : /\ r.tcs[n] # 0
                                              /\ r.objs[r.tcs[n]].status = status})
          IN l.counts = [passed |-> number("passed"), failed |-> number("failed"),
                         skipped |-> number("skipped"),
                         aborted |-> number("aborted")]]_vars

\* C37: a run_started that is rejected on a session that owns a running run
\* leaves that run attached to the session, and when the session is over no
\* run it started is left running in the active-runs map
C37_RejectedRunStartedKeepsRun ==
  [][\A s \in Sessions :
       /\ (/\ errs'[s] # errs[s]
           /\ run[s] # NoRun
           /\ heap[run[s]].status = "running")
            => run'[s] = run[s]
       /\ (/\ errs[s] > 0
           /\ tpc[<<s, "main">>] # "done" /\ tpc'[<<s, "main">>] = "done")
            => \A id \in RunIds :
                 (test_runs'[id] # NoRun /\ heap'[test_runs'[id]].owner = s)
                   => heap'[test_runs'[id]].status # "running"]_vars

\* C38: a viewer never receives the same entry twice: what its replay holds
\* and what comes through its subscriber queue have no entry in common, and
\* neither holds an entry twice, whenever the viewer connects
C38_NoEntryTwice ==
  \A v \in Viewers :
    LET w == viewer[v]
        sent == Min(w.nrep, Len(w.got))
        replay == SubSeq(w.got, 1, sent) \o w.items
        queued == SubSeq(w.got, sent + 1, Len(w.got)) \o w.q
        all == replay \o queued
    IN \A i, j \in 1..Len(all) : i # j => all[i] # all[j]

\* a viewer connected after a first entry, which it got by replay, and a
\* later entry of the same case came to it through the queue
C38_Witness ==
  \E v \in Viewers :
    /\ viewer[v].pc = "tail"
    /\ viewer[v].nrep >= 1
    /\ Len(viewer[v].got) > viewer[v].nrep

\* C39: at the merge every record held by a log file or a stack file of the
\* run is in the archive inside the slice of exactly one test case of the
\* sidecar written with it, whatever test_case_started messages came before
C39_NoRecordLostAtMerge ==
  [][\A id \in RunIds :
       ~merged[id].written /\ merged'[id].written
         => LET meta == sidecar'[id]
                data == merged'[id].data
                holds(n, x) ==
                  /\ meta.slices[n] # <<>>
                  /\ \E p \in (meta.slices[n][1] + 1)..
                               (meta.slices[n][1] + meta.slices[n][2]
                                  + meta.slices[n][3]) :
                       p <= Len(data) /\ data[p] = x
                once(file) ==
                  \A k \in 1..Len(file) :
                    Cardinality({n \in TcNames : holds(n, file[k])}) = 1
            IN \A t \in TcIds : once(caseLog[id][t]) /\ once(caseStack[id][t])]_vars

\* C40: a retention sweep leaves alone the directory of every run that is in
\* the active-runs map with status running: its sidecar, its case files and
\* its archive are after the sweep what they were before
C40_SweepSparesRunningRuns ==
  [][boot' # boot
       => \A id \in RunIds :
            (test_runs[id] # NoRun /\ heap[test_runs[id]].status = "running")
              => /\ sidecar'[id] = sidecar[id]
                 /\ caseLog'[id] = caseLog[id]
                 /\ caseStack'[id] = caseStack[id]
                 /\ merged'[id] = merged[id]]_vars

====
